---- MODULE Spec2Model ----
(***************************************************************************)
(* Model of the agent runtime of MCP-Server-Prueba:                        *)
(*   - the LangGraph orchestration loop (process_input, llm,               *)
(*     tool_execution, final_answer, route_decision) in its two variants,  *)
(*     src/agents/agent-http (text-embedded tool calls through the LLM     *)
(*     gateway) and src/agent (native Bedrock tool calls);                 *)
(*   - the callers of the loop: process_request of src/agent and the       *)
(*     streaming handler of src/agents/agent-websocket;                    *)
(*   - the LLM gateway's generate handler with its response cache and its  *)
(*     metrics (src/llm-gateway/src/server.py).                            *)
(*   - the tool registry of src/toolbox, the message loop of the streaming  *)
(*     endpoint, and the gateway's model adapters.                         *)
(* Timestamps and latencies written by the code are not part of the state. *)
(***************************************************************************)
EXTENDS Integers, Sequences, FiniteSets, TLC

VARIABLES
    variant,       \* which workflow is wired: "http" (agent-http) or "agent"
    user_input,    \* AgentState.user_input
    model,         \* AgentState.model (None when the caller gave none)
    messages,      \* AgentState.messages, the history
    steps,         \* AgentState.steps, the step trace
    final_answer,  \* AgentState.final_answer
    pc,            \* the node the compiled graph runs next
    prev,          \* the node that ran last
    llmCalls,      \* generation requests issued in this turn
    toolRounds,    \* executions of the tool_execution node in this turn
    invoked,       \* the mcp_client.call_tool invocations of this turn, in order
    posted,        \* the tool names POSTed to the provider's /mcp/tools/call, in order
    raised,        \* the tool names of the call_tool invocations that raised, in order
    requested,     \* the model ids of the generation requests of this turn, in order
    mcp_messages,  \* the messages of the last generation request, as sent
    events,        \* what the caller of the turn was sent, in order
    run,           \* the graph run of the turn: 2 in the streaming handler's ainvoke
    conn,          \* the caller's connection: "open", "closed" by the client, "removed"
    cache,         \* cache_manager's entries, oldest first
    metrics,       \* metrics_manager's counters, by model id
    now,           \* the gateway's clock, in ticks
    req,           \* the generate requests: each handler's position and locals
    evicted,       \* the keys whose entry was evicted
    adminOps,      \* administrative calls made so far
    lastDone,      \* the handler that returned last, 0 after a cache clear
    served,        \* the tools/call requests the tool providers answered, in order
    TOOL_REGISTRY, \* toolbox's registry, in insertion order
    lastCall,      \* the last call of a function of the registry and its outcome
    endpoint,      \* the websocket_endpoint coroutine of each accepted connection
    delivered      \* the last call of a model adapter: its messages, the provider's request

loopVars == <<variant, user_input, model, messages, steps, final_answer,
              pc, prev, llmCalls, toolRounds, invoked, posted, raised, requested, mcp_messages,
              events, run, conn>>

gwVars == <<cache, metrics, now, req, evicted, adminOps, lastDone>>

provVars == <<served, TOOL_REGISTRY, lastCall>>

epVars == <<endpoint>>

adapterVars == <<delivered>>

vars == <<loopVars, gwVars, provVars, epVars, adapterVars>>

----------------------------------------------------------------------------
(* Bounds of the model *)

\* The model (the environment) requests tools in at most this many replies
\* of one turn.
MaxToolRounds == 3

\* Tool-requesting replies in one graph run of a streamed turn.
MaxStreamRounds == 1

\* Concurrent generate requests the gateway handles in one run.
NumRequests == 2

\* settings.CACHE_MAX_SIZE scaled to the model: the entries the cache holds.
CacheMaxSize == 1

\* The clock stops here.
MaxTime == 3

\* Administrative calls (cache clear, metrics reset) in one run.
MaxAdminOps == 1

\* tools/call requests sent to the tool providers in one run.
MaxProviderCalls == 2

----------------------------------------------------------------------------
(* Values *)

\* settings.CACHE_TTL = 3600 seconds, in clock ticks of 1800 seconds.
CacheTtl == 2

\* Python's None
None == "<None>"

\* MCPClient.tools after discover_tools: the names the tool provider listed.
DiscoveredTools == {"add", "divide"}

DefaultModel == "bedrock-nova-pro"

\* Texts a caller may send, by what _detect_model_from_text sees in them.
UserInputs == {"2+2 please", "usa gemini: 2+2"}

\* The model a caller may name: none, an empty string, a registry name.
CallerModels == {None, "", "gpt-4o"}

\* bool(x) of an optional string
Truthy(x) == x # None /\ x # ""

Msg(role, content, tool_calls, tool_call_id, name) ==
    [role |-> role, content |-> content, tool_calls |-> tool_calls,
     tool_call_id |-> tool_call_id, name |-> name]

HumanMessage(content) == Msg("user", content, <<>>, None, None)
AIMessage(content, tool_calls) == Msg("assistant", content, tool_calls, None, None)
ToolMessage(content, tool_call_id, name) == Msg("tool", content, <<>>, tool_call_id, name)

ToolCall(name, args, id) == [name |-> name, args |-> args, id |-> id]

Last(s) == s[Len(s)]

\* Mutant: the messages key has no reducer, the messages a node returns
\* replace the history.
add_messages_Replace(left, right) == right

\* The reducer of AgentState.messages: the messages a node returns carry no
\* id of an earlier message, so they are appended to the history.
add_messages(left, right) == left \o right

----------------------------------------------------------------------------
(* The graph wiring, create_workflow *)

\* Mutant: the edge out of tool_execution wired to final_answer.
WorkflowEdge_ToolsToFinal(node) ==
    CASE node = "START" -> "process_input"
      [] node = "process_input" -> "llm"
      [] node = "tool_execution" -> "final_answer"
      [] node = "final_answer" -> "END"

\* graph.add_edge(...) of create_workflow
WorkflowEdge(node) ==
    CASE node = "START" -> "process_input"
      [] node = "process_input" -> "llm"
      [] node = "tool_execution" -> "llm"
      [] node = "final_answer" -> "END"

\* Mutant: the two targets of the conditional edge exchanged.
ConditionalEdge_Swapped(route) ==
    CASE route = "tools" -> "final_answer"
      [] route = "final" -> "tool_execution"

\* the mapping of graph.add_conditional_edges("llm", route_decision, {...})
ConditionalEdge(route) ==
    CASE route = "tools" -> "tool_execution"
      [] route = "final" -> "final_answer"

\* hasattr(last_message, 'tool_calls'): AIMessage declares the attribute,
\* HumanMessage and ToolMessage do not.
HasToolCalls(m) == m.role = "assistant" /\ m.tool_calls # <<>>

\* The state a node or a routing function is handed: the keys of AgentState.
StateOf(msgs, stps, text, m, answer) ==
    [messages |-> msgs, steps |-> stps, user_input |-> text, model |-> m,
     final_answer |-> answer]

\* Mutant: the route taken on the attribute's presence, not on its content.
route_decision_AttrOnly(state) ==
    IF Last(state.messages).role = "assistant" THEN "tools" ELSE "final"

\* Mutant: a round cap read off the trace, tools are refused once the trace
\* holds the records of two tool rounds.
route_decision_TraceCap(state) ==
    IF HasToolCalls(Last(state.messages)) /\ Len(state.steps) < 6
    THEN "tools" ELSE "final"

\* route_decision(state): reads state["messages"][-1] and nothing else.
route_decision(state) ==
    IF HasToolCalls(Last(state.messages)) THEN "tools" ELSE "final"

\* The node the conditional edge out of llm leads to, from the state after
\* the update of the llm node.
RouteAfterLlm(msgs, stps, text, m, answer) ==
    ConditionalEdge(route_decision(StateOf(msgs, stps, text, m, answer)))

----------------------------------------------------------------------------
(* The callers of the loop *)

\* The graph run of a streamed turn stops requesting tools after
\* MaxStreamRounds rounds, any other after MaxToolRounds.
RoundLimit == IF variant = "ws" THEN MaxStreamRounds ELSE MaxToolRounds

\* The events _process_workflow_chunk sends for the tools entries of the
\* tool_execution records of a steps list, from record i on.
RECURSIVE ToolEvents(_, _)
ToolEvents(stps, i) ==
    IF i > Len(stps) THEN <<>>
    ELSE (IF stps[i].node = "tool_execution" /\ "tools" \in DOMAIN stps[i]
          THEN LET tools == stps[i].tools
                   Pair(k) == <<[type |-> "tool_call", tool |-> tools[k].name,
                                 args |-> tools[k].args],
                                [type |-> "tool_result", tool |-> tools[k].name,
                                 result |-> tools[k].result]>>
                   F[k \in 0..Len(tools)] ==
                       IF k = 0 THEN <<>> ELSE F[k - 1] \o Pair(k)
               IN  F[Len(tools)]
          ELSE <<>>) \o ToolEvents(stps, i + 1)

\* step_count of _handle_user_message: the chunks streamed so far
StepCount(evs) == Len(SelectSeq(evs, LAMBDA e : e.type = "step"))

\* Mutant: the tool events of a chunk are sent before its step event.
ChunkEvents_ToolsFirst(node, stps) ==
    (IF node = "tool_execution" THEN ToolEvents(stps, 1) ELSE <<>>)
    \o <<[type |-> "step", node |-> node, step_number |-> StepCount(events) + 1]>>

\* _process_workflow_chunk for the chunk {node: update}: the step event, and
\* for tool_execution the tool events of the steps list the node returned.
ChunkEvents(node, stps) ==
    <<[type |-> "step", node |-> node, step_number |-> StepCount(events) + 1]>>
    \o (IF node = "tool_execution" THEN ToolEvents(stps, 1) ELSE <<>>)

\* Mutant: the messages are written to the socket whatever its state.
SendMessages_Unchecked(c, sent, msgs) == sent \o msgs

\* manager.send_message for each of msgs in order, on a connection in state
\* c to which `sent` was delivered before: what has been delivered after.
\* A connection that is closed or no longer registered is delivered nothing.
SendMessages(c, sent, msgs) == IF c = "open" THEN sent \o msgs ELSE sent

\* The events of the chunk of a node: those of _process_workflow_chunk in
\* the astream run of the streaming handler, none in any other run.
Chunk(node, stps) ==
    IF variant = "ws" /\ run = 1 THEN ChunkEvents(node, stps) ELSE <<>>

\* What the caller has been sent when a node has run.
Streamed(node, stps) == SendMessages(conn, events, Chunk(node, stps))

\* What the caller is sent when a graph run has returned: ProcessResponse
\* from process_request, response and complete after the streaming handler's
\* ainvoke, nothing after its astream.
Returned(answer, stps) ==
    IF variant = "ws"
    THEN IF run = 2
         THEN <<[type |-> "response", content |-> answer],
                [type |-> "complete", steps |-> Len(stps)]>>
         ELSE <<>>
    ELSE <<[type |-> "http", status |-> 200, result |-> answer,
            steps |-> Len(stps)]>>

\* Mutant: the except branch reports the error and then the completion.
Failed_ThenComplete ==
    IF variant = "ws" THEN <<[type |-> "error"], [type |-> "complete", steps |-> 0]>>
    ELSE <<[type |-> "http", status |-> 500]>>

\* What the caller is sent when the graph run raised: the except branch of
\* the streaming handler, of process_request.
Failed ==
    IF variant = "ws" THEN <<[type |-> "error"]>>
    ELSE <<[type |-> "http", status |-> 500]>>

----------------------------------------------------------------------------
(* process_input *)

\* re.search over the lowered text; the texts of UserInputs by their outcome.
DetectModelFromText(text) ==
    CASE text = "usa gemini: 2+2" -> "gemini-pro"
      [] OTHER -> None

\* Mutant: the text is looked at first, the caller's model only when the text
\* names none.
CurrentModel_TextFirst(v, m, text) ==
    IF v = "agent" THEN None
    ELSE IF DetectModelFromText(text) # None THEN DetectModelFromText(text) ELSE m

\* current_model of process_input_node: the caller's model, else the detected.
\* The src/agent variant has no model in its state and detects nothing.
CurrentModel(v, m, text) ==
    IF v = "agent" THEN None
    ELSE IF Truthy(m) THEN m ELSE DetectModelFromText(text)

\* Mutant: the node's result never carries the model key.
ModelUpdate_KeepState(m, cm) == m

\* The model key of the node's result: written when current_model is truthy,
\* absent (the state's value stays) otherwise.
ModelUpdate(m, cm) == IF Truthy(cm) THEN cm ELSE m

ProcessInputStep(text, cm) ==
    IF Truthy(cm)
    THEN [node |-> "process_input", input |-> text, model_selected |-> cm]
    ELSE [node |-> "process_input", input |-> text]

ProcessInput ==
    /\ pc = "process_input"
    /\ LET cm == CurrentModel(variant, model, user_input) IN
        /\ messages' = add_messages(messages, <<HumanMessage(user_input)>>)
        /\ steps' = Append(steps, ProcessInputStep(user_input, cm))
        /\ model' = ModelUpdate(model, cm)
    /\ pc' = WorkflowEdge("process_input")
    /\ prev' = "process_input"
    /\ events' = Streamed("process_input", steps')
    /\ UNCHANGED <<variant, user_input, final_answer, llmCalls, toolRounds, invoked,
                   posted, raised, requested, mcp_messages, run, conn>>
    /\ UNCHANGED gwVars
    /\ UNCHANGED provVars
    /\ UNCHANGED epVars
    /\ UNCHANGED adapterVars

----------------------------------------------------------------------------
(* llm, agent-http variant: the reply is free text, parsed for a tool call *)

\* A response text is a string; LinesOf gives response_text.strip().split('\n')
\* as the parser sees it.  A line is [k, v, marker]:
\*   k = "TOOL_CALL"  line.startswith("TOOL_CALL:"), v the name after
\*                    replace(...).strip()  ("" when nothing follows)
\*   k = "ARGUMENTS"  line.startswith("ARGUMENTS:"), v the payload
\*   k = "prose"      any other line
\* marker: the line contains the substring "TOOL_CALL:".
Line(k, v, marker) == [k |-> k, v |-> v, marker |-> marker]

TxtAnswer4 == "4"
TxtAnswerLong == "The answer is 4"
TxtCallAdd == "TOOL_CALL: add\nARGUMENTS: {\"a\": 2, \"b\": 2}"
TxtCallSqrt == "TOOL_CALL: sqrt\nARGUMENTS: {\"x\": 4}"
TxtBadJson == "TOOL_CALL: add\nARGUMENTS: {a: 2"
TxtMidLine == "I will use TOOL_CALL: add"
TxtEmptyName == "TOOL_CALL:\nARGUMENTS: {\"a\": 2, \"b\": 2}"
TxtNoArguments == "TOOL_CALL: add"
TxtTwoCalls == "TOOL_CALL: add\nARGUMENTS: {\"a\": 2, \"b\": 2}\nTOOL_CALL: divide\nARGUMENTS: {\"a\": 1, \"b\": 0}"

LinesOf(text) ==
    CASE text = TxtAnswer4 -> <<Line("prose", "4", FALSE)>>
      [] text = TxtAnswerLong -> <<Line("prose", "The answer is 4", FALSE)>>
      [] text = TxtCallAdd ->
            <<Line("TOOL_CALL", "add", TRUE),
              Line("ARGUMENTS", "{\"a\": 2, \"b\": 2}", FALSE)>>
      [] text = TxtCallSqrt ->
            <<Line("TOOL_CALL", "sqrt", TRUE),
              Line("ARGUMENTS", "{\"x\": 4}", FALSE)>>
      [] text = TxtBadJson ->
            <<Line("TOOL_CALL", "add", TRUE),
              Line("ARGUMENTS", "{a: 2", FALSE)>>
      [] text = TxtMidLine -> <<Line("prose", "I will use TOOL_CALL: add", TRUE)>>
      [] text = TxtEmptyName ->
            <<Line("TOOL_CALL", "", TRUE),
              Line("ARGUMENTS", "{\"a\": 2, \"b\": 2}", FALSE)>>
      [] text = TxtNoArguments -> <<Line("TOOL_CALL", "add", TRUE)>>
      [] text = TxtTwoCalls ->
            <<Line("TOOL_CALL", "add", TRUE),
              Line("ARGUMENTS", "{\"a\": 2, \"b\": 2}", FALSE),
              Line("TOOL_CALL", "divide", TRUE),
              Line("ARGUMENTS", "{\"a\": 1, \"b\": 0}", FALSE)>>

\* json.loads of an ARGUMENTS payload: the parsed mapping, or a raise.
JsonValid(payload) ==
    payload \in {"{\"a\": 2, \"b\": 2}", "{\"x\": 4}", "{\"a\": 1, \"b\": 0}"}

JsonLoads(payload) ==
    CASE payload = "{\"a\": 2, \"b\": 2}" -> "a=2,b=2"
      [] payload = "{\"x\": 4}" -> "x=4"
      [] payload = "{\"a\": 1, \"b\": 0}" -> "a=1,b=0"

EmptyArgs == "{}"

\* The for loop over the lines: [raised, tool_name, tool_args] after line i..
RECURSIVE ParseLines(_, _, _, _)
ParseLines(lines, i, tool_name, tool_args) ==
    IF i > Len(lines)
    THEN [raised |-> FALSE, tool_name |-> tool_name, tool_args |-> tool_args]
    ELSE IF lines[i].k = "TOOL_CALL"
    THEN ParseLines(lines, i + 1, lines[i].v, tool_args)
    ELSE IF lines[i].k = "ARGUMENTS"
    THEN IF JsonValid(lines[i].v)
         THEN ParseLines(lines, i + 1, tool_name, JsonLoads(lines[i].v))
         ELSE [raised |-> TRUE, tool_name |-> tool_name, tool_args |-> tool_args]
    ELSE ParseLines(lines, i + 1, tool_name, tool_args)

\* "TOOL_CALL:" in response_text
HasMarker(text) == \E i \in 1..Len(LinesOf(text)) : LinesOf(text)[i].marker

\* f"call_{datetime.now().timestamp()}": one id per llm call of the turn
CallId(n) == "call_" \o ToString(n)

\* Mutant: the loop's exception is caught around json.loads only, the name
\* parsed so far is kept and attached with empty arguments.
ParsedToolCalls_KeepOnRaise(text, n) ==
    IF ~HasMarker(text) THEN <<>>
    ELSE LET r == ParseLines(LinesOf(text), 1, None, EmptyArgs) IN
         IF r.tool_name # None /\ r.tool_name # ""
         THEN <<ToolCall(r.tool_name, r.tool_args, CallId(n))>>
         ELSE <<>>

\* response.tool_calls after the parsing block of llm_node (lines 153-182)
ParsedToolCalls(text, n) ==
    IF ~HasMarker(text) THEN <<>>
    ELSE LET r == ParseLines(LinesOf(text), 1, None, EmptyArgs) IN
         IF r.raised THEN <<>>
         ELSE IF r.tool_name # None /\ r.tool_name # ""
         THEN <<ToolCall(r.tool_name, r.tool_args, CallId(n))>>
         ELSE <<>>

\* What the gateway may answer: the text, the model it reports, the cached flag.
GatewayReply(text, reported, cached) ==
    [text |-> text, model |-> reported, cached |-> cached]

HttpReplies ==
    {GatewayReply(t, None, FALSE) :
        t \in {TxtAnswer4, TxtAnswerLong, TxtCallAdd, TxtCallSqrt, TxtBadJson,
               TxtMidLine, TxtEmptyName, TxtNoArguments, TxtTwoCalls}}
    \cup {GatewayReply(TxtAnswer4, "us.amazon.nova-pro-v1:0", TRUE)}

\* The replies the gateway gives in a streamed turn: two answers, a request
\* of a discovered tool and a request of an unknown tool.
StreamReplies ==
    {GatewayReply(t, None, FALSE) :
        t \in {TxtAnswer4, TxtAnswerLong, TxtCallAdd, TxtCallSqrt}}

RepliesOf(v) == IF v = "ws" THEN StreamReplies ELSE HttpReplies

SystemMessage(content) == Msg("system", content, <<>>, None, None)

\* system_prompt of llm_node: the enumeration of the discovered tools and
\* the format of a tool call.
SystemPrompt == "You are a helpful AI assistant with access to the following tools: add, divide"

\* Mutant: the request carries the system message and the last message of
\* the history.
LlmMessages_LastOnly(msgs) == <<SystemMessage(SystemPrompt), Last(msgs)>>

\* llm_messages of llm_node
LlmMessages(msgs) == <<SystemMessage(SystemPrompt)>> \o msgs

\* The role _convert_langchain_messages_to_mcp gives a message: system,
\* user, assistant by its class, user for any other class (ToolMessage).
McpRole(msg) ==
    IF msg.role = "system" THEN "system"
    ELSE IF msg.role = "user" THEN "user"
    ELSE IF msg.role = "assistant" THEN "assistant"
    ELSE "user"

\* _convert_langchain_messages_to_mcp: role and content of each message
ConvertToMcp(msgs) ==
    [i \in 1..Len(msgs) |-> [role |-> McpRole(msgs[i]), content |-> msgs[i].content]]

\* The messages of the generation request: "messages" of the payload of
\* LLMGatewayClient.generate; the history handed to llm_with_tools.invoke
\* in src/agent, where the tools are bound to the model and no system
\* message is made.
Payload(v, msgs) ==
    IF v = "agent"
    THEN [i \in 1..Len(msgs) |-> [role |-> msgs[i].role, content |-> msgs[i].content]]
    ELSE ConvertToMcp(LlmMessages(msgs))

\* response.additional_kwargs.get("model") or model or llm_client.default_model
ModelUsed(reported, m) ==
    IF Truthy(reported) THEN reported ELSE IF Truthy(m) THEN m ELSE DefaultModel

\* model_to_use of LLMGatewayClient.generate: the model of the payload
ModelToUse(m) == IF Truthy(m) THEN m ELSE DefaultModel

\* settings.bedrock_model_id: the model ChatBedrock of src/agent is built with
BedrockModelId == "us.amazon.nova-pro-v1:0"

\* The model id a generation request of the variant carries.
RequestedModel(v, m) == IF v = "agent" THEN BedrockModelId ELSE ModelToUse(m)

\* Mutant: the llm node files its record under the name of another node.
LlmStepHttp_AsFinal(reply, m, tool_calls) ==
    [node |-> "final_answer", model |-> ModelUsed(reply.model, m),
     cached |-> reply.cached, has_tool_calls |-> tool_calls # <<>>]

LlmStepHttp(reply, m, tool_calls) ==
    [node |-> "llm", model |-> ModelUsed(reply.model, m), cached |-> reply.cached,
     has_tool_calls |-> tool_calls # <<>>]

\* llm_node of agent-http with a reply of the gateway
LlmHttp ==
    /\ pc = "llm"
    /\ variant \in {"http", "ws"}
    /\ \E reply \in RepliesOf(variant) :
        LET tcs == ParsedToolCalls(reply.text, llmCalls + 1)
            response == AIMessage(reply.text, tcs)
        IN  /\ tcs # <<>> => toolRounds < RoundLimit
            /\ messages' = add_messages(messages, <<response>>)
            /\ steps' = Append(steps, LlmStepHttp(reply, model, tcs))
            /\ pc' = RouteAfterLlm(messages', steps', user_input, model, final_answer)
    /\ llmCalls' = llmCalls + 1
    /\ requested' = Append(requested, RequestedModel(variant, model))
    /\ mcp_messages' = Payload(variant, messages)
    /\ prev' = "llm"
    /\ events' = Streamed("llm", steps')
    /\ UNCHANGED <<variant, user_input, model, final_answer, toolRounds, invoked,
                   posted, raised, run, conn>>
    /\ UNCHANGED gwVars
    /\ UNCHANGED provVars
    /\ UNCHANGED epVars
    /\ UNCHANGED adapterVars

\* llm_client.generate raises (gateway 4xx/5xx, transport error): the
\* exception leaves the graph run, no state update is applied.
LlmRaises ==
    /\ pc = "llm"
    /\ llmCalls' = llmCalls + 1
    /\ requested' = Append(requested, RequestedModel(variant, model))
    /\ mcp_messages' = Payload(variant, messages)
    /\ pc' = "aborted"
    /\ prev' = "llm"
    /\ events' = SendMessages(conn, events, Failed)
    /\ UNCHANGED <<variant, user_input, model, messages, steps, final_answer,
                   toolRounds, invoked, posted, raised, run, conn>>
    /\ UNCHANGED gwVars
    /\ UNCHANGED provVars
    /\ UNCHANGED epVars
    /\ UNCHANGED adapterVars

----------------------------------------------------------------------------
(* llm, src/agent variant: Bedrock returns structured tool calls *)

AgentToolCallLists ==
    { <<ToolCall("add", "a=2,b=2", "tc1")>>,
      <<ToolCall("sqrt", "x=4", "tc1")>>,
      <<ToolCall("add", "a=2,b=2", "tc1"), ToolCall("sqrt", "x=4", "tc2")>>,
      <<ToolCall("sqrt", "x=4", "tc1"), ToolCall("add", "a=2,b=2", "tc2")>>,
      <<ToolCall("add", "a=2,b=2", "tc1"), ToolCall("divide", "a=1,b=0", "tc2")>> }

AgentReplies ==
    {AIMessage(c, <<>>) : c \in {TxtAnswer4, TxtAnswerLong}}
    \cup {AIMessage("", tcs) : tcs \in AgentToolCallLists}

LlmStepAgent(response) ==
    [node |-> "llm", has_tool_calls |-> response.tool_calls # <<>>]

LlmAgent ==
    /\ pc = "llm"
    /\ variant = "agent"
    /\ \E response \in AgentReplies :
        /\ response.tool_calls # <<>> => toolRounds < MaxToolRounds
        /\ messages' = add_messages(messages, <<response>>)
        /\ steps' = Append(steps, LlmStepAgent(response))
        /\ pc' = RouteAfterLlm(messages', steps', user_input, model, final_answer)
    /\ llmCalls' = llmCalls + 1
    /\ requested' = Append(requested, RequestedModel(variant, model))
    /\ mcp_messages' = Payload(variant, messages)
    /\ prev' = "llm"
    /\ events' = Streamed("llm", steps')
    /\ UNCHANGED <<variant, user_input, model, final_answer, toolRounds, invoked,
                   posted, raised, run, conn>>
    /\ UNCHANGED gwVars
    /\ UNCHANGED provVars
    /\ UNCHANGED epVars
    /\ UNCHANGED adapterVars

----------------------------------------------------------------------------
(* tool_execution *)

\* An outcome of call_tool: the value returned or the message of the
\* exception raised, and whether the POST to the provider was made.
Ok(value) == [tag |-> "ok", value |-> value, sent |-> TRUE]
Exc(msg, sent) == [tag |-> "exc", value |-> msg, sent |-> sent]

\* str(list(self.tools.keys())) in the ValueError's message
AvailableTools == "['add', 'divide']"

\* The provider's answers to a POST of a tool call.
ProviderOutcomes == {Ok("4"), Ok(None), Exc("Server error '500'", TRUE)}

\* Mutant: call_tool posts the request without looking the name up.
CallToolOutcomes_NoValidation(name) == ProviderOutcomes

\* MCPClient.call_tool: a name that was not discovered raises ValueError
\* before any request; otherwise the provider answers with a text, with no
\* content (None is returned), or the request fails and the error is re-raised.
CallToolOutcomes(name) ==
    IF name \notin DiscoveredTools
    THEN {Exc("Tool '" \o name \o "' not found. Available tools: "
                  \o AvailableTools, FALSE)}
    ELSE ProviderOutcomes

AllOutcomes == UNION {CallToolOutcomes(n) : n \in DiscoveredTools \cup {"sqrt"}}

OutcomeVectors(tcs) ==
    {f \in [1..Len(tcs) -> AllOutcomes] :
        \A i \in 1..Len(tcs) : f[i] \in CallToolOutcomes(tcs[i].name)}

\* str(x) of a tool result
Str(v) == IF v = None THEN "None" ELSE v

\* The tool message of one request: the try branch or the except branch.
ToolMessageOf(tc, out) ==
    IF out.tag = "ok"
    THEN ToolMessage(Str(out.value), tc.id, tc.name)
    ELSE ToolMessage("Error: " \o out.value, tc.id, tc.name)

RECURSIVE ToolMessagesOkOnly(_, _, _)
ToolMessagesOkOnly(tcs, outs, i) ==
    IF i > Len(tcs) THEN <<>>
    ELSE (IF outs[i].tag = "ok" THEN <<ToolMessageOf(tcs[i], outs[i])>> ELSE <<>>)
         \o ToolMessagesOkOnly(tcs, outs, i + 1)

\* Mutant: the except branch logs the error and appends no tool message.
ToolMessages_DropFailed(tcs, outs) == ToolMessagesOkOnly(tcs, outs, 1)

RECURSIVE ToolMessagesUntilFailure(_, _, _)
ToolMessagesUntilFailure(tcs, outs, i) ==
    IF i > Len(tcs) THEN <<>>
    ELSE <<ToolMessageOf(tcs[i], outs[i])>>
         \o (IF outs[i].tag = "ok" THEN ToolMessagesUntilFailure(tcs, outs, i + 1)
             ELSE <<>>)

\* Mutant: the except branch appends the error message and leaves the loop.
ToolMessages_StopAtFailure(tcs, outs) == ToolMessagesUntilFailure(tcs, outs, 1)

\* tool_messages after the for loop
ToolMessages(tcs, outs) == [i \in 1..Len(tcs) |-> ToolMessageOf(tcs[i], outs[i])]

\* executed_tools after the for loop: appended to in the try branch only
RECURSIVE ExecutedTools(_, _, _)
ExecutedTools(tcs, outs, i) ==
    IF i > Len(tcs) THEN <<>>
    ELSE (IF outs[i].tag = "ok"
          THEN <<[name |-> tcs[i].name, args |-> tcs[i].args, result |-> outs[i].value]>>
          ELSE <<>>) \o ExecutedTools(tcs, outs, i + 1)

ToolNames(tcs) == [i \in 1..Len(tcs) |-> tcs[i].name]

\* The names of the invocations that reached self.client.post
RECURSIVE PostedNames(_, _, _)
PostedNames(tcs, outs, i) ==
    IF i > Len(tcs) THEN <<>>
    ELSE (IF outs[i].sent THEN <<tcs[i].name>> ELSE <<>>)
         \o PostedNames(tcs, outs, i + 1)

\* The names of the invocations that left call_tool by a raise
RECURSIVE RaisedNames(_, _, _)
RaisedNames(tcs, outs, i) ==
    IF i > Len(tcs) THEN <<>>
    ELSE (IF outs[i].tag = "exc" THEN <<tcs[i].name>> ELSE <<>>)
         \o RaisedNames(tcs, outs, i + 1)

ToolExecution ==
    /\ pc = "tool_execution"
    /\ LET last == Last(messages) IN
        IF ~HasToolCalls(last)
        THEN \* return {"steps": steps}
             UNCHANGED <<messages, steps, invoked, posted, raised>>
        ELSE \E outs \in OutcomeVectors(last.tool_calls) :
                /\ messages' = add_messages(messages, ToolMessages(last.tool_calls, outs))
                /\ steps' = Append(steps,
                       [node |-> "tool_execution",
                        tools |-> ExecutedTools(last.tool_calls, outs, 1)])
                /\ invoked' = invoked \o ToolNames(last.tool_calls)
                /\ posted' = posted \o PostedNames(last.tool_calls, outs, 1)
                /\ raised' = raised \o RaisedNames(last.tool_calls, outs, 1)
    /\ toolRounds' = toolRounds + 1
    /\ pc' = WorkflowEdge("tool_execution")
    /\ prev' = "tool_execution"
    /\ events' = Streamed("tool_execution", steps')
    /\ UNCHANGED <<variant, user_input, model, final_answer, llmCalls, requested, mcp_messages,
                   run, conn>>
    /\ UNCHANGED gwVars
    /\ UNCHANGED provVars
    /\ UNCHANGED epVars
    /\ UNCHANGED adapterVars

----------------------------------------------------------------------------
(* final_answer *)

\* str(last_message) of a message that is no AIMessage
MessageRepr(m) == "content='" \o m.content \o "'"

\* Mutant: final_answer_node returns the steps only.
FinalAnswerOf_Unset(msgs) == None

\* Mutant: the answer is taken from the first reply of the model.
FinalAnswerOf_FirstReply(msgs) == msgs[2].content

FinalAnswerOf(msgs) ==
    IF Last(msgs).role = "assistant" THEN Last(msgs).content
    ELSE MessageRepr(Last(msgs))

FinalAnswer ==
    /\ pc = "final_answer"
    /\ final_answer' = FinalAnswerOf(messages)
    /\ steps' = Append(steps, [node |-> "final_answer"])
    /\ pc' = WorkflowEdge("final_answer")
    /\ prev' = "final_answer"
    /\ events' = SendMessages(conn, events,
                      Chunk("final_answer", steps') \o Returned(final_answer', steps'))
    /\ UNCHANGED <<variant, user_input, model, messages, llmCalls, toolRounds, invoked,
                   posted, raised, requested, mcp_messages, run, conn>>
    /\ UNCHANGED gwVars
    /\ UNCHANGED provVars
    /\ UNCHANGED epVars
    /\ UNCHANGED adapterVars

Begin ==
    /\ pc = "START"
    /\ pc' = WorkflowEdge("START")
    /\ prev' = "START"
    /\ UNCHANGED <<variant, user_input, model, messages, steps, final_answer,
                   llmCalls, toolRounds, invoked, posted, raised, requested, mcp_messages, events, run, conn>>
    /\ UNCHANGED gwVars
    /\ UNCHANGED provVars
    /\ UNCHANGED epVars
    /\ UNCHANGED adapterVars

LoopInit ==
    /\ variant \in {"http", "agent"}
    /\ user_input \in UserInputs
    /\ model \in (IF variant = "http" THEN CallerModels ELSE {None})
    /\ messages = <<>>
    /\ steps = <<>>
    /\ final_answer = None
    /\ pc = "START"
    /\ prev = "none"
    /\ llmCalls = 0
    /\ toolRounds = 0
    /\ invoked = <<>>
    /\ posted = <<>>
    /\ raised = <<>>
    /\ requested = <<>>
    /\ mcp_messages = <<>>
    /\ events = <<>>
    /\ run = 1
    /\ conn = "open"

LoopNext ==
    \/ Begin
    \/ ProcessInput
    \/ LlmHttp
    \/ LlmAgent
    \/ LlmRaises
    \/ ToolExecution
    \/ FinalAnswer

----------------------------------------------------------------------------
(* The streaming handler, _handle_user_message *)

\* The content of a message a streaming client may send.
StreamInputs == {"", "2+2 please"}

\* From the receipt of the message to the astream call: the error event for
\* an empty content, the start event otherwise.
WsStart ==
    /\ pc = "received"
    /\ IF user_input = ""
       THEN /\ events' = SendMessages(conn, events, <<[type |-> "error"]>>)
            /\ pc' = "done"
       ELSE /\ events' = SendMessages(conn, events, <<[type |-> "start"]>>)
            /\ pc' = "START"
    /\ UNCHANGED <<variant, user_input, model, messages, steps, final_answer, prev,
                   llmCalls, toolRounds, invoked, posted, raised, requested, mcp_messages, run, conn>>
    /\ UNCHANGED gwVars
    /\ UNCHANGED provVars
    /\ UNCHANGED epVars
    /\ UNCHANGED adapterVars

\* astream is exhausted: workflow.ainvoke(initial_state) runs the graph again
\* from the same initial_state.  Its steps list is the object the nodes of
\* the first run appended to when the graph hands the input's list to the
\* nodes, and is empty when the graph copies its input.
WsSecondRun ==
    /\ variant = "ws"
    /\ pc = "END"
    /\ run = 1
    /\ run' = 2
    /\ pc' = "START"
    /\ prev' = "none"
    /\ messages' = <<>>
    /\ steps' \in {<<>>, steps}
    /\ final_answer' = None
    /\ toolRounds' = 0
    /\ UNCHANGED <<variant, user_input, model, llmCalls, invoked, posted, raised, requested, mcp_messages,
                   events, conn>>
    /\ UNCHANGED gwVars
    /\ UNCHANGED provVars
    /\ UNCHANGED epVars
    /\ UNCHANGED adapterVars

\* handle_message has returned: the endpoint is back at receive_json.
TurnOver == pc \in {"done", "aborted"} \/ (pc = "END" /\ run = 2)

\* The client closes its end of the connection, at any time.
ClientCloses ==
    /\ variant = "ws"
    /\ conn = "open"
    /\ conn' = "closed"
    /\ UNCHANGED <<variant, user_input, model, messages, steps, final_answer, pc,
                   prev, llmCalls, toolRounds, invoked, posted, raised, requested, mcp_messages,
                   events, run>>
    /\ UNCHANGED gwVars
    /\ UNCHANGED provVars
    /\ UNCHANGED epVars
    /\ UNCHANGED adapterVars

\* receive_json raises WebSocketDisconnect: manager.disconnect.
EndpointDisconnects ==
    /\ variant = "ws"
    /\ conn = "closed"
    /\ TurnOver
    /\ conn' = "removed"
    /\ UNCHANGED <<variant, user_input, model, messages, steps, final_answer, pc,
                   prev, llmCalls, toolRounds, invoked, posted, raised, requested, mcp_messages,
                   events, run>>
    /\ UNCHANGED gwVars
    /\ UNCHANGED provVars
    /\ UNCHANGED epVars
    /\ UNCHANGED adapterVars

\* receive_json raises another exception (a frame that is not JSON, a broken
\* socket): manager.disconnect, then the error event is handed to
\* send_message.
EndpointFails ==
    /\ variant = "ws"
    /\ conn \in {"open", "closed"}
    /\ TurnOver
    /\ conn' = "removed"
    /\ events' = SendMessages(conn', events, <<[type |-> "error"]>>)
    /\ UNCHANGED <<variant, user_input, model, messages, steps, final_answer, pc,
                   prev, llmCalls, toolRounds, invoked, posted, raised, requested, mcp_messages,
                   run>>
    /\ UNCHANGED gwVars
    /\ UNCHANGED provVars
    /\ UNCHANGED epVars
    /\ UNCHANGED adapterVars

\* initial_state of _handle_user_message
WsInit ==
    /\ variant = "ws"
    /\ user_input \in StreamInputs
    /\ model \in CallerModels
    /\ messages = <<>>
    /\ steps = <<>>
    /\ final_answer = None
    /\ pc = "received"
    /\ prev = "none"
    /\ llmCalls = 0
    /\ toolRounds = 0
    /\ invoked = <<>>
    /\ posted = <<>>
    /\ raised = <<>>
    /\ requested = <<>>
    /\ mcp_messages = <<>>
    /\ events = <<>>
    /\ run = 1
    /\ conn = "open"

\* initial_state of process_request
RequestInit ==
    /\ variant = "agent"
    /\ user_input = "2+2 please"
    /\ model = None
    /\ messages = <<>>
    /\ steps = <<>>
    /\ final_answer = None
    /\ pc = "START"
    /\ prev = "none"
    /\ llmCalls = 0
    /\ toolRounds = 0
    /\ invoked = <<>>
    /\ posted = <<>>
    /\ raised = <<>>
    /\ requested = <<>>
    /\ mcp_messages = <<>>
    /\ events = <<>>
    /\ run = 1
    /\ conn = "open"

CallerNext ==
    \/ WsStart
    \/ Begin
    \/ ProcessInput
    \/ LlmHttp
    \/ LlmAgent
    \/ LlmRaises
    \/ ToolExecution
    \/ FinalAnswer
    \/ WsSecondRun

----------------------------------------------------------------------------
(* The LLM gateway: generate_response, its cache and its metrics *)

\* get_llm(name) succeeds for these and raises ValueError for any other name.
RegisteredModels == {"gpt-4o", "bedrock-nova-pro"}

GenerateRequest(m, msgs, temperature, max_tokens) ==
    [model |-> m, messages |-> msgs, temperature |-> temperature,
     max_tokens |-> max_tokens]

\* The generate requests a client may send (temperature in tenths).
Requests ==
    { GenerateRequest("gpt-4o", "2+2?", 7, 2000),
      GenerateRequest("gpt-4o", "3+3?", 7, 2000),
      GenerateRequest("no-such-model", "2+2?", 7, 2000) }

\* The key of a request: a deterministic hash of the four fields.
CacheKey(r) == <<r.model, r.messages, r.temperature, r.max_tokens>>

\* What llm.generate may return for one request: the provider is not
\* deterministic, two calls with the same input may differ.
AdapterOutputs ==
    { [content |-> "4", model |-> "gpt-4o-2024-08-06", total_tokens |-> 10,
       finish_reason |-> "stop"],
      [content |-> "four", model |-> "gpt-4o-2024-05-13", total_tokens |-> 12,
       finish_reason |-> "length"] }

NoEntry == [found |-> FALSE]

\* The positions of the entries of a key.
EntriesOf(c, key) == {i \in 1..Len(c) : c[i].key = key}

\* cache_manager.get: the stored response of the key if an entry younger
\* than the TTL exists, None otherwise.
CacheGet(c, key, t) ==
    IF \E i \in EntriesOf(c, key) : t - c[i].stored_at < CacheTtl
    THEN LET i == CHOOSE i \in EntriesOf(c, key) : t - c[i].stored_at < CacheTtl
         IN  [found |-> TRUE, response |-> c[i].response,
              stored_at |-> c[i].stored_at]
    ELSE NoEntry

Without(c, key) == SelectSeq(c, LAMBDA e : e.key # key)

\* The key an insertion of `key` evicts: the oldest, when the cache is full.
EvictedBy(c, key) ==
    IF Len(Without(c, key)) >= CacheMaxSize THEN {Without(c, key)[1].key} ELSE {}

\* cache_manager.set: replaces the entry of the key, evicting the oldest
\* entry when the cache is full.
CacheSet(c, key, response, t) ==
    LET kept == Without(c, key)
        room == IF Len(kept) >= CacheMaxSize THEN Tail(kept) ELSE kept
    IN  Append(room, [key |-> key, response |-> response, stored_at |-> t])

ZeroCounters == [calls |-> 0, cache_hits |-> 0, errors |-> 0, tokens |-> 0]

MetricModels == {r.model : r \in Requests}

\* metrics_manager.record(model, tokens, cost, latency, cached, error)
MetricsRecord(m, name, tokens, cached, error) ==
    [m EXCEPT ![name] =
        [calls |-> @.calls + 1,
         cache_hits |-> @.cache_hits + (IF cached THEN 1 ELSE 0),
         errors |-> @.errors + (IF error THEN 1 ELSE 0),
         tokens |-> @.tokens + tokens]]

\* Mutant: the lookup hashes another form of the messages than the store
\* does, so no stored key is ever found.
CheckCache_KeyMismatch(c, request, t) == NoEntry

\* Mutant: the lookup is made without the entry's age being looked at.
CheckCache_NoExpiry(c, request, t) == CacheGet(c, CacheKey(request), 0)

\* The cache lookup of generate_response.
CheckCache(c, request, t) == CacheGet(c, CacheKey(request), t)

\* Mutant: the metric of a served request is recorded without its cached flag.
RecordSuccess_NeverCached(m, request, response_data, cached) ==
    MetricsRecord(m, request.model, response_data.total_tokens, FALSE, FALSE)

\* Mutant: the metrics are recorded in the miss branch, a hit records nothing.
RecordSuccess_MissOnly(m, request, response_data, cached) ==
    IF cached THEN m
    ELSE MetricsRecord(m, request.model, response_data.total_tokens, FALSE, FALSE)

\* "Record metrics" of generate_response, reached on a hit and on a miss.
RecordSuccess(m, request, response_data, cached) ==
    MetricsRecord(m, request.model, response_data.total_tokens, cached, FALSE)

\* Mutant: the except branch records the failed request as an ordinary call.
RecordError_NoFlag(m, request) ==
    MetricsRecord(m, request.model, 0, FALSE, FALSE)

\* The record call of the two except branches.
RecordError(m, request) ==
    MetricsRecord(m, request.model, 0, FALSE, TRUE)

\* Mutant: one except branch for every exception, answering 500.
HttpStatusOf_Always500(exception) == 500

\* The status of the HTTPException the except branches raise: 400 for a
\* ValueError, 500 for any other exception.
HttpStatusOf(exception) == IF exception = "ValueError" THEN 400 ELSE 500

\* "Cache the response" of generate_response.
StoreResponse(c, request, response_data, t) ==
    CacheSet(c, CacheKey(request), response_data, t)

ReqIds == 1..NumRequests

NewReq == [st |-> "new"]

DoneIds == {q \in ReqIds : req[q].st = "done"}

\* The handler's locals while it awaits the provider: the request and
\* start_time.  after: the requests that had returned when this one arrived.
Awaiting(request, t, after) ==
    [st |-> "awaiting", request |-> request, start_time |-> t, after |-> after]

\* A finished handler: the HTTP status, and for 200 the GenerateResponse
\* (content, model, usage, finish_reason of response_data and the cached flag).
\* adapter_called: the handler called llm.generate; stored_at: the instant at
\* which the response it returned was put into the cache.
Done(request, adapter_called, status, cached, response, stored_at) ==
    [st |-> "done", request |-> request, adapter_called |-> adapter_called,
     status |-> status, cached |-> cached, response |-> response,
     stored_at |-> stored_at]

NoResponse == [content |-> None]

\* stored_at of a handler that returned no response
NotStored == 0 - 1

\* generate_response from its start to the first await or to its return:
\* the cache lookup, then on a hit the metrics and the response, on a miss
\* get_llm (ValueError: HTTP 400) and the call of the provider.
GwReceive(r) ==
    /\ req[r].st = "new"
    /\ r > 1 => req[r - 1].st # "new"
    /\ \E request \in Requests :
        LET cached_response == CheckCache(cache, request, now) IN
        IF cached_response.found
        THEN /\ req' = [req EXCEPT ![r] =
                    Done(request, FALSE, 200, TRUE, cached_response.response,
                         cached_response.stored_at)]
             /\ metrics' = RecordSuccess(metrics, request,
                                cached_response.response, TRUE)
             /\ lastDone' = r
        ELSE IF request.model \notin RegisteredModels
        THEN /\ req' = [req EXCEPT ![r] =
                    Done(request, FALSE, HttpStatusOf("ValueError"), FALSE,
                         NoResponse, NotStored)]
             /\ metrics' = RecordError(metrics, request)
             /\ lastDone' = r
        ELSE /\ req' = [req EXCEPT ![r] = Awaiting(request, now, DoneIds)]
             /\ UNCHANGED <<metrics, lastDone>>
    /\ UNCHANGED <<cache, now, evicted, adminOps>>
    /\ UNCHANGED loopVars
    /\ UNCHANGED provVars
    /\ UNCHANGED epVars
    /\ UNCHANGED adapterVars

\* _call_provider returned: the response is cached, the metrics recorded,
\* the response returned with cached=false.
GwProviderReturns(r) ==
    /\ req[r].st = "awaiting"
    /\ \E response_data \in AdapterOutputs :
        LET request == req[r].request IN
            /\ cache' = StoreResponse(cache, request, response_data, now)
            /\ evicted' = evicted \cup EvictedBy(cache, CacheKey(request))
            /\ metrics' = RecordSuccess(metrics, request, response_data, FALSE)
            /\ req' = [req EXCEPT ![r] =
                   Done(request, TRUE, 200, FALSE, response_data, now)]
    /\ lastDone' = r
    /\ UNCHANGED <<now, adminOps>>
    /\ UNCHANGED loopVars
    /\ UNCHANGED provVars
    /\ UNCHANGED epVars
    /\ UNCHANGED adapterVars

\* llm.generate raised: the error metric, nothing cached, HTTP 400 when the
\* exception is a ValueError and HTTP 500 otherwise.
GwProviderFails(r) ==
    /\ req[r].st = "awaiting"
    /\ metrics' = RecordError(metrics, req[r].request)
    /\ \E exception \in {"ValueError", "Exception"} :
          req' = [req EXCEPT ![r] =
              Done(req[r].request, TRUE, HttpStatusOf(exception), FALSE,
                   NoResponse, NotStored)]
    /\ lastDone' = r
    /\ UNCHANGED <<cache, now, evicted, adminOps>>
    /\ UNCHANGED loopVars
    /\ UNCHANGED provVars
    /\ UNCHANGED epVars
    /\ UNCHANGED adapterVars

\* POST /cache/clear
GwClearCache ==
    /\ adminOps < MaxAdminOps
    /\ cache' = <<>>
    /\ lastDone' = 0
    /\ adminOps' = adminOps + 1
    /\ UNCHANGED <<metrics, now, req, evicted>>
    /\ UNCHANGED loopVars
    /\ UNCHANGED provVars
    /\ UNCHANGED epVars
    /\ UNCHANGED adapterVars

\* Mutant: the reset of the metrics empties the cache as well.
GwResetMetrics_ClearsCache ==
    /\ adminOps < MaxAdminOps
    /\ metrics' = [m \in MetricModels |-> ZeroCounters]
    /\ cache' = <<>>
    /\ lastDone' = 0
    /\ adminOps' = adminOps + 1
    /\ UNCHANGED <<now, req, evicted>>
    /\ UNCHANGED loopVars
    /\ UNCHANGED provVars
    /\ UNCHANGED epVars
    /\ UNCHANGED adapterVars

\* POST /metrics/reset
GwResetMetrics ==
    /\ adminOps < MaxAdminOps
    /\ metrics' = [m \in MetricModels |-> ZeroCounters]
    /\ adminOps' = adminOps + 1
    /\ UNCHANGED <<cache, now, req, evicted, lastDone>>
    /\ UNCHANGED loopVars
    /\ UNCHANGED provVars
    /\ UNCHANGED epVars
    /\ UNCHANGED adapterVars

Tick ==
    /\ now < MaxTime
    /\ now' = now + 1
    /\ UNCHANGED <<cache, metrics, req, evicted, adminOps, lastDone>>
    /\ UNCHANGED loopVars
    /\ UNCHANGED provVars
    /\ UNCHANGED epVars
    /\ UNCHANGED adapterVars

GwInit ==
    /\ cache = <<>>
    /\ metrics = [m \in MetricModels |-> ZeroCounters]
    /\ now = 0
    /\ req = [r \in ReqIds |-> NewReq]
    /\ evicted = {}
    /\ adminOps = 0
    /\ lastDone = 0

GwNext ==
    \/ \E r \in ReqIds : GwReceive(r)
    \/ \E r \in ReqIds : GwProviderReturns(r)
    \/ \E r \in ReqIds : GwProviderFails(r)
    \/ GwClearCache
    \/ GwResetMetrics
    \/ Tick

----------------------------------------------------------------------------
(* The tool providers: POST /mcp/tools/call of mcp-server and of toolbox *)

ProviderServers == {"mcp-server", "toolbox"}

\* The tools call_tool of mcp-server dispatches on; TOOL_REGISTRY of toolbox.
ServerTools(server) ==
    IF server = "mcp-server" THEN {"add", "multiply", "uppercase", "count_words"}
    ELSE {"add", "subtract", "multiply", "divide", "uppercase", "lowercase",
          "count_words"}

\* The parameters of a tool's function.
RequiredArgs(name) ==
    IF name \in {"add", "subtract", "multiply", "divide"} THEN {"a", "b"}
    ELSE {"text"}

\* A JSON value of the arguments: a number or a string.
NumArg(n) == [t |-> "num", n |-> n]
TextArg(s) == [t |-> "str", s |-> s]

\* The tool names and the arguments a client may send.
AskedTools == {"add", "divide", "uppercase", "sqrt"}

AskedArguments ==
    { [a |-> NumArg(2), b |-> NumArg(2)],
      [a |-> NumArg(2)],
      [a |-> NumArg(1), b |-> NumArg(0)],
      [a |-> TextArg("x"), b |-> NumArg(2)],
      [text |-> TextArg("x")] }

ToolReturned(text) == [tag |-> "ok", text |-> text]
ToolRaised(exception) == [tag |-> exception, text |-> None]

\* str() of a quotient a / b, a float
QuotientText(a, b) ==
    IF a % b = 0 THEN ToString(a \div b) \o ".0" ELSE "<fraction>"

\* text.upper() for the texts of AskedArguments
Upper(s) == IF s = "x" THEN "X" ELSE s

\* The tool's function applied to complete arguments: what it returns, as
\* str(result), or the exception it raises.  Arithmetic on a string and a
\* number raises TypeError; divide raises ValueError for a zero divisor.
RunTool(name, args) ==
    IF name \in {"add", "divide"}
    THEN IF name = "divide" /\ args.b.t = "num" /\ args.b.n = 0
         THEN ToolRaised("ValueError")
         ELSE IF args.a.t # "num" \/ args.b.t # "num" THEN ToolRaised("TypeError")
         ELSE IF name = "add" THEN ToolReturned(ToString(args.a.n + args.b.n))
         ELSE ToolReturned(QuotientText(args.a.n, args.b.n))
    ELSE IF args.text.t = "str" THEN ToolReturned(Upper(args.text.s))
    ELSE ToolRaised("AttributeError")

\* An answer of /mcp/tools/call: the status and the content list.
ToolAnswer(status, text) ==
    [status |-> status,
     content |-> IF status = 200 THEN <<[type |-> "text", text |-> text]>>
                 ELSE <<>>]

\* The answer to what the try block did: 200 with the text, or the
\* HTTPException of the except branch that catches the exception.
AnswerOf(outcome, valueErrorStatus) ==
    IF outcome.tag = "ok" THEN ToolAnswer(200, outcome.text)
    ELSE IF outcome.tag = "ValueError" THEN ToolAnswer(valueErrorStatus, None)
    ELSE ToolAnswer(500, None)

\* call_tool of mcp-server: the if/elif chain over the names checks the
\* required arguments (ValueError) and calls the function; the else branch
\* raises HTTPException(404) inside the try block, where `except Exception`
\* catches it.  ValueError is answered with 400, any other exception with 500.
McpServerCallTool(name, args) ==
    IF name \in ServerTools("mcp-server")
    THEN IF ~(RequiredArgs(name) \subseteq DOMAIN args)
         THEN AnswerOf(ToolRaised("ValueError"), 400)
         ELSE AnswerOf(RunTool(name, args), 400)
    ELSE AnswerOf(ToolRaised("HTTPException"), 400)

\* An instance of a subclass of MCPTool: what its name property returns and
\* the function its execute computes.
Tool(name, function) == [name |-> name, function |-> function]

\* The classes of tools/ and SumTool, a class a caller of register_tool
\* wrote: it adds, under the name sum.
ToolClasses ==
    [AddTool |-> Tool("add", "add"),
     SubtractTool |-> Tool("subtract", "subtract"),
     MultiplyTool |-> Tool("multiply", "multiply"),
     DivideTool |-> Tool("divide", "divide"),
     UppercaseTool |-> Tool("uppercase", "uppercase"),
     LowercaseTool |-> Tool("lowercase", "lowercase"),
     CountWordsTool |-> Tool("count_words", "count_words"),
     SumTool |-> Tool("sum", "add")]

\* tool_class()
Instance(tool_class) == ToolClasses[tool_class]

\* An item of the registry: the key and the class stored under it.
Item(name, tool_class) == <<name, tool_class>>

\* TOOL_REGISTRY as the module defines it.
InitialRegistry ==
    << Item("add", "AddTool"), Item("subtract", "SubtractTool"),
       Item("multiply", "MultiplyTool"), Item("divide", "DivideTool"),
       Item("uppercase", "UppercaseTool"), Item("lowercase", "LowercaseTool"),
       Item("count_words", "CountWordsTool") >>

\* TOOL_REGISTRY.keys()
Keys(registry) == {registry[i][1] : i \in 1..Len(registry)}

\* TOOL_REGISTRY[name]
ClassOf(registry, name) ==
    registry[CHOOSE i \in 1..Len(registry) : registry[i][1] = name][2]

\* MCPTool.to_mcp_schema: the name of the tool instance and its schema
\* (the required fields of the schema stand for the description and schema).
to_mcp_schema(tool) ==
    [name |-> tool.name, required |-> RequiredArgs(tool.function)]

\* get_all_tools: the schema of an instance of every class of the registry.
get_all_tools(registry) ==
    [i \in 1..Len(registry) |-> to_mcp_schema(Instance(registry[i][2]))]

\* get_tool: ValueError for a name that is not a key, an instance of the
\* class otherwise.
get_tool(registry, name) ==
    IF name \notin Keys(registry) THEN ToolRaised("ValueError")
    ELSE [tag |-> "ok", tool |-> Instance(ClassOf(registry, name))]

\* register_tool: ValueError for a name that is a key (the registry stays as
\* it is), the class stored under the name otherwise.
register_tool(registry, name, tool_class) ==
    IF name \in Keys(registry) THEN registry
    ELSE Append(registry, Item(name, tool_class))

\* call_tool of toolbox: get_tool raises ValueError for a name that is not
\* registered; tool.execute(**arguments) raises TypeError when the keywords
\* are not the parameters of execute.  ValueError is answered with 404, any
\* other exception with 500.
ToolboxCallTool(registry, name, args) ==
    LET got == get_tool(registry, name) IN
    IF got.tag # "ok"
    THEN AnswerOf(got, 404)
    ELSE IF DOMAIN args # RequiredArgs(got.tool.function)
    THEN AnswerOf(ToolRaised("TypeError"), 404)
    ELSE AnswerOf(RunTool(got.tool.function, args), 404)

CallTool(server, registry, name, args) ==
    IF server = "mcp-server" THEN McpServerCallTool(name, args)
    ELSE ToolboxCallTool(registry, name, args)

\* The provider answers a tools/call request.
AnswerCall(server) ==
    /\ Len(served) < MaxProviderCalls
    /\ \E name \in AskedTools, args \in AskedArguments :
          served' = Append(served,
              [server |-> server, name |-> name, arguments |-> args,
               answer |-> CallTool(server, TOOL_REGISTRY, name, args)])
    /\ UNCHANGED <<TOOL_REGISTRY, lastCall>>
    /\ UNCHANGED epVars
    /\ UNCHANGED adapterVars
    /\ UNCHANGED loopVars
    /\ UNCHANGED gwVars

\* A provider answers a tools/call request.
ProviderCall == \E server \in ProviderServers : AnswerCall(server)

\* The outcome of a call of a function of the registry: whether it raised,
\* and the list it returned (the empty list when it returned no list).
Called(op, name, did_raise, result) ==
    [op |-> op, name |-> name, raised |-> did_raise, result |-> result]

NoCall == Called(None, None, FALSE, <<>>)

\* The names and classes register_tool is called with, the names get_tool
\* is called with.
RegisteredNames == {"add", "sum"}
RegisteredClasses == {"AddTool", "SumTool"}
LookedUpNames == {"add", "sqrt"}

\* POST /mcp/tools/list of toolbox
ListTools ==
    /\ lastCall' = Called("list_tools", None, FALSE, get_all_tools(TOOL_REGISTRY))
    /\ UNCHANGED <<served, TOOL_REGISTRY>>
    /\ UNCHANGED epVars
    /\ UNCHANGED adapterVars
    /\ UNCHANGED loopVars
    /\ UNCHANGED gwVars

\* A call of get_tool
GetTool ==
    /\ \E name \in LookedUpNames :
          lastCall' = Called("get_tool", name,
                             get_tool(TOOL_REGISTRY, name).tag # "ok", <<>>)
    /\ UNCHANGED <<served, TOOL_REGISTRY>>
    /\ UNCHANGED epVars
    /\ UNCHANGED adapterVars
    /\ UNCHANGED loopVars
    /\ UNCHANGED gwVars

\* A call of register_tool
RegisterTool ==
    /\ \E name \in RegisteredNames, tool_class \in RegisteredClasses :
          /\ TOOL_REGISTRY' = register_tool(TOOL_REGISTRY, name, tool_class)
          /\ lastCall' = Called("register_tool", name,
                                name \in Keys(TOOL_REGISTRY), <<>>)
    /\ UNCHANGED served
    /\ UNCHANGED epVars
    /\ UNCHANGED adapterVars
    /\ UNCHANGED loopVars
    /\ UNCHANGED gwVars

ProviderInit ==
    /\ served = <<>>
    /\ TOOL_REGISTRY = InitialRegistry
    /\ lastCall = NoCall

\* No connection has been accepted, no adapter has been called.
EndpointInit == endpoint = <<>> /\ delivered = <<>>

ProviderNext == ProviderCall

\* toolbox answering requests while its registry is read and extended.
RegistryNext ==
    \/ AnswerCall("toolbox")
    \/ ListTools
    \/ GetTool
    \/ RegisterTool

----------------------------------------------------------------------------
(* The streaming endpoint: one websocket_endpoint coroutine per accepted    *)
(* connection, src/agents/agent-websocket/src/main.py and                   *)
(* websocket/handlers.py. The coroutines run on one event loop and yield    *)
(* at their awaits, so each action below runs one coroutine from one await  *)
(* to the next. A turn's graph run is reduced to the events it sends.       *)

\* The connections clients open.
ConnectionIds == {"c1", "c2"}

\* The clients send at most this many frames in all.
MaxFrames == 3

\* workflow.astream yields at most this many chunks in a turn.
MaxChunks == 1

\* The frames a client sends.
Frames ==
    { [type |-> "message", content |-> "2+2 please"],
      [type |-> "message", content |-> ""],
      [type |-> "ping", content |-> ""],
      [type |-> "bogus", content |-> ""] }

\* The coroutine of a connection: where it waits (at), the frames the
\* client has sent that receive_json has not returned yet (inbox), the
\* frames read so far (turn), step_count of the running handler, and the
\* events sent on the connection, each with the turn that sent it.
Accepted ==
    [at |-> "receive", inbox |-> 0, turn |-> 0, step_count |-> 0,
     sent |-> << <<0, "connected">> >>]

\* manager.send_message(connection_id, {"type": type, ...}) by the handler
\* of the current turn
SendMessage(e, type) == [e EXCEPT !.sent = Append(@, <<e.turn, type>>)]

\* The handler has returned: the loop is back at receive_json.
HandlerReturned(e) == [e EXCEPT !.at = "receive"]

\* The frames the clients have sent on the connections in cs.
RECURSIVE FramesSent(_)
FramesSent(cs) ==
    IF cs = {} THEN 0
    ELSE LET c == CHOOSE x \in cs : TRUE
         IN  endpoint[c].turn + endpoint[c].inbox + FramesSent(cs \ {c})

\* handle_message up to its first await that suspends: the dispatch on the
\* frame's type, and _handle_user_message up to the start event.
handle_message(e, data) ==
    IF data.type = "message"
    THEN IF data.content = ""
         THEN HandlerReturned(SendMessage(e, "error"))
         ELSE [SendMessage(e, "start") EXCEPT !.at = "astream", !.step_count = 0]
    ELSE IF data.type = "ping"
         THEN HandlerReturned(SendMessage(e, "pong"))
         ELSE HandlerReturned(SendMessage(e, "error"))

\* websocket_endpoint: manager.connect and the connected event
Connect(c) ==
    /\ c \notin DOMAIN endpoint
    /\ endpoint' = [x \in DOMAIN endpoint \cup {c} |->
                       IF x = c THEN Accepted ELSE endpoint[x]]
    /\ UNCHANGED loopVars
    /\ UNCHANGED gwVars
    /\ UNCHANGED provVars
    /\ UNCHANGED adapterVars

\* The client sends a frame; it may do so while a handler is running.
ClientSends(c) ==
    /\ c \in DOMAIN endpoint
    /\ endpoint[c].at # "closed"
    /\ FramesSent(DOMAIN endpoint) < MaxFrames
    /\ endpoint' = [endpoint EXCEPT ![c].inbox = @ + 1]
    /\ UNCHANGED loopVars
    /\ UNCHANGED gwVars
    /\ UNCHANGED provVars
    /\ UNCHANGED adapterVars

\* A loop that reads the next frame whatever the coroutine is waiting for.
Receive_WhileHandling(c) ==
    /\ c \in DOMAIN endpoint
    /\ endpoint[c].at # "closed"
    /\ endpoint[c].inbox > 0
    /\ \E data \in Frames :
          endpoint' = [endpoint EXCEPT ![c] =
              handle_message([@ EXCEPT !.inbox = @ - 1, !.turn = @ + 1], data)]
    /\ UNCHANGED loopVars
    /\ UNCHANGED gwVars
    /\ UNCHANGED provVars
    /\ UNCHANGED adapterVars

\* The message loop: receive_json returns a frame and handle_message is
\* awaited with it.
Receive(c) ==
    /\ c \in DOMAIN endpoint
    /\ endpoint[c].at = "receive"
    /\ endpoint[c].inbox > 0
    /\ \E data \in Frames :
          endpoint' = [endpoint EXCEPT ![c] =
              handle_message([@ EXCEPT !.inbox = @ - 1, !.turn = @ + 1], data)]
    /\ UNCHANGED loopVars
    /\ UNCHANGED gwVars
    /\ UNCHANGED provVars
    /\ UNCHANGED adapterVars

\* _handle_user_message: astream yields a chunk, _process_workflow_chunk
\* sends its step event.
StreamChunk(c) ==
    /\ c \in DOMAIN endpoint
    /\ endpoint[c].at = "astream"
    /\ endpoint[c].step_count < MaxChunks
    /\ endpoint' = [endpoint EXCEPT ![c] =
                       [SendMessage(@, "step") EXCEPT !.step_count = @ + 1]]
    /\ UNCHANGED loopVars
    /\ UNCHANGED gwVars
    /\ UNCHANGED provVars
    /\ UNCHANGED adapterVars

\* _handle_user_message: astream is exhausted, ainvoke returns, the response
\* event is sent.
SendResponse(c) ==
    /\ c \in DOMAIN endpoint
    /\ endpoint[c].at = "astream"
    /\ endpoint' = [endpoint EXCEPT ![c] =
                       [SendMessage(@, "response") EXCEPT !.at = "complete"]]
    /\ UNCHANGED loopVars
    /\ UNCHANGED gwVars
    /\ UNCHANGED provVars
    /\ UNCHANGED adapterVars

\* _handle_user_message: the complete event; the handler returns.
SendComplete(c) ==
    /\ c \in DOMAIN endpoint
    /\ endpoint[c].at = "complete"
    /\ endpoint' = [endpoint EXCEPT ![c] = HandlerReturned(SendMessage(@, "complete"))]
    /\ UNCHANGED loopVars
    /\ UNCHANGED gwVars
    /\ UNCHANGED provVars
    /\ UNCHANGED adapterVars

\* _handle_user_message: the graph run raises; the error event is sent and
\* the handler returns.
WorkflowRaises(c) ==
    /\ c \in DOMAIN endpoint
    /\ endpoint[c].at = "astream"
    /\ endpoint' = [endpoint EXCEPT ![c] = HandlerReturned(SendMessage(@, "error"))]
    /\ UNCHANGED loopVars
    /\ UNCHANGED gwVars
    /\ UNCHANGED provVars
    /\ UNCHANGED adapterVars

\* The client has closed the connection: receive_json raises
\* WebSocketDisconnect once the frames before the close are read, and the
\* loop ends.
Disconnect(c) ==
    /\ c \in DOMAIN endpoint
    /\ endpoint[c].at = "receive"
    /\ endpoint[c].inbox = 0
    /\ endpoint' = [endpoint EXCEPT ![c].at = "closed"]
    /\ UNCHANGED loopVars
    /\ UNCHANGED gwVars
    /\ UNCHANGED provVars
    /\ UNCHANGED adapterVars

EndpointNext ==
    \E c \in ConnectionIds :
        \/ Connect(c)
        \/ ClientSends(c)
        \/ Receive(c)
        \/ StreamChunk(c)
        \/ SendResponse(c)
        \/ SendComplete(c)
        \/ WorkflowRaises(c)
        \/ Disconnect(c)

----------------------------------------------------------------------------
(* The model adapters of the gateway, src/llm-gateway/src/models: what each *)
(* generate hands to its provider for a list of normalized messages.        *)

\* A conversation has at most this many messages.
MaxMessages == 3

\* Message of server.py: a role and a content.
NormalizedMessages ==
    [role : {"system", "user", "assistant"}, content : {"be brief", "2+2?"}]

\* The message lists generate is called with.
Conversations == UNION { [1..n -> NormalizedMessages] : n \in 1..MaxMessages }

\* The content of the last system message of msgs, None without one: the
\* converters assign the variable at every system message of their loop.
LastSystem(msgs) ==
    LET at == {i \in 1..Len(msgs) : msgs[i].role = "system"}
    IN  IF at = {} THEN None
        ELSE msgs[CHOOSE i \in at : \A j \in at : j <= i].content

\* The user and assistant messages of msgs, in order.
Turns(msgs) == SelectSeq(msgs, LAMBDA msg : msg.role \in {"user", "assistant"})

\* GeminiLLM._convert_messages_to_gemini_format
convert_messages_to_gemini_format(msgs) ==
    LET before == SubSeq(msgs, 1, Len(msgs) - 1)
        turns == Turns(before)
    IN  [system_instruction |-> LastSystem(before),
         history |-> [i \in 1..Len(turns) |->
                         [role |-> IF turns[i].role = "user" THEN "user" ELSE "model",
                          parts |-> <<turns[i].content>>]],
         last_message |-> IF msgs = <<>> THEN "" ELSE msgs[Len(msgs)].content]

\* GeminiLLM.generate: the chat is started with the history and the last
\* message is sent into it; system_instruction is not used after the
\* conversion.
GeminiRequest(msgs) ==
    LET converted == convert_messages_to_gemini_format(msgs)
    IN  [history |-> converted.history, message |-> converted.last_message]

\* BedrockLLM._convert_messages_to_bedrock_format
convert_messages_to_bedrock_format(msgs) ==
    LET turns == Turns(msgs)
    IN  [system_prompt |-> LastSystem(msgs),
         conversation |-> [i \in 1..Len(turns) |->
                              [role |-> turns[i].role,
                               content |-> <<[text |-> turns[i].content]>>]]]

\* BedrockLLM.generate: the parameters of client.converse; system is the
\* empty list when the key is not added.
BedrockRequest(msgs) ==
    LET converted == convert_messages_to_bedrock_format(msgs)
    IN  [messages |-> converted.conversation,
         system |-> IF converted.system_prompt \in {None, ""} THEN <<>>
                    ELSE <<[text |-> converted.system_prompt]>>]

\* OpenAILLM.generate: the messages are passed as they are.
OpenAIRequest(msgs) == [messages |-> msgs]

\* A call of an adapter's generate and what its provider was sent. The
\* adapters keep nothing between calls, so a behaviour has one call.
Delivered(adapter, msgs, request) ==
    [adapter |-> adapter, messages |-> msgs, request |-> request]

\* GeminiLLM.generate
GeminiGenerate ==
    /\ delivered = <<>>
    /\ \E msgs \in Conversations :
          delivered' = Delivered("gemini", msgs, GeminiRequest(msgs))
    /\ UNCHANGED loopVars
    /\ UNCHANGED gwVars
    /\ UNCHANGED provVars
    /\ UNCHANGED epVars

\* BedrockLLM.generate
BedrockGenerate ==
    /\ delivered = <<>>
    /\ \E msgs \in Conversations :
          delivered' = Delivered("bedrock", msgs, BedrockRequest(msgs))
    /\ UNCHANGED loopVars
    /\ UNCHANGED gwVars
    /\ UNCHANGED provVars
    /\ UNCHANGED epVars

\* OpenAILLM.generate
OpenAIGenerate ==
    /\ delivered = <<>>
    /\ \E msgs \in Conversations :
          delivered' = Delivered("openai", msgs, OpenAIRequest(msgs))
    /\ UNCHANGED loopVars
    /\ UNCHANGED gwVars
    /\ UNCHANGED provVars
    /\ UNCHANGED epVars

AdapterNext ==
    \/ GeminiGenerate
    \/ BedrockGenerate
    \/ OpenAIGenerate

----------------------------------------------------------------------------
(* Specifications *)

\* One turn of the orchestration loop; the gateway is at rest.
Init == LoopInit /\ GwInit /\ ProviderInit /\ EndpointInit

Next == LoopNext

Spec == Init /\ [][Next]_vars

\* The gateway serving concurrent requests; no turn is running.
GatewayInit ==
    /\ GwInit
    /\ ProviderInit
    /\ EndpointInit
    /\ variant = "http"
    /\ user_input = "2+2 please"
    /\ model = None
    /\ messages = <<>>
    /\ steps = <<>>
    /\ final_answer = None
    /\ pc = "START"
    /\ prev = "none"
    /\ llmCalls = 0
    /\ toolRounds = 0
    /\ invoked = <<>>
    /\ posted = <<>>
    /\ raised = <<>>
    /\ requested = <<>>
    /\ mcp_messages = <<>>
    /\ events = <<>>
    /\ run = 1
    /\ conn = "open"

GatewayNext == GwNext

GatewaySpec == GatewayInit /\ [][GatewayNext]_vars

\* One turn with its caller, a user message on a streaming connection or a
\* POST /process of src/agent; the gateway is at rest.
CallerInit == (WsInit \/ RequestInit) /\ GwInit /\ ProviderInit /\ EndpointInit

CallerSpec == CallerInit /\ [][CallerNext]_vars

\* One streamed turn on a connection the client may close at any time.
ConnectionInit ==
    WsInit /\ model = None /\ GwInit /\ ProviderInit /\ EndpointInit

ConnectionNext ==
    \/ WsStart
    \/ Begin
    \/ ProcessInput
    \/ LlmHttp
    \/ LlmRaises
    \/ ToolExecution
    \/ FinalAnswer
    \/ WsSecondRun
    \/ ClientCloses
    \/ EndpointDisconnects
    \/ EndpointFails

ConnectionSpec == ConnectionInit /\ [][ConnectionNext]_vars

\* The model adapters called with message lists; nothing else runs.
AdapterSpecInit == GatewayInit

AdapterSpec == AdapterSpecInit /\ [][AdapterNext]_vars

\* The streaming endpoint serving its connections; the turns' graph runs
\* are reduced to their events and the gateway is at rest.
EndpointSpecInit == GatewayInit

EndpointSpec == EndpointSpecInit /\ [][EndpointNext]_vars

\* The tool providers answering requests; no turn is running and the gateway
\* is at rest.
ProviderSpecInit == GatewayInit

ProviderSpec == ProviderSpecInit /\ [][ProviderNext]_vars

\* toolbox and its registry; no turn is running and the gateway is at rest.
RegistryInit == GatewayInit

RegistrySpec == RegistryInit /\ [][RegistryNext]_vars

----------------------------------------------------------------------------
(* Claims about the orchestration loop *)

\* The edges of the compiled graph.
GraphEdges ==
    { <<"START", "process_input">>, <<"process_input", "llm">>,
      <<"llm", "tool_execution">>, <<"llm", "final_answer">>,
      <<"tool_execution", "llm">>, <<"final_answer", "END">> }

\* C1: in both workflow variants the node that ran last and the node that runs
\* next are always joined by one of the edges START->process_input,
\* process_input->llm, llm->tool_execution, llm->final_answer,
\* tool_execution->llm, final_answer->END; the edge out of llm is the one
\* route_decision chose on the last message (a generate call that raises
\* leaves the run from llm and enters no node).
C1_OnlyGraphTransitions ==
    /\ \/ prev = "none" /\ pc = "START"
       \/ <<prev, pc>> \in GraphEdges
       \/ prev = "llm" /\ pc = "aborted"
    /\ (prev = "llm" /\ pc = "tool_execution") => HasToolCalls(Last(messages))
    /\ (prev = "llm" /\ pc = "final_answer") => ~HasToolCalls(Last(messages))

\* A turn of each kind of edge: one tool round, then the final answer, END.
C1_Witness == pc = "END" /\ toolRounds >= 1

\* A round cap an implementation could enforce within the rounds the
\* environment drives here.
RoundCap == MaxToolRounds - 1

\* C2 (as claimed): the number of tool-call <-> model-call rounds of a turn
\* never exceeds a maximum round count.
C2_RoundsCapped == toolRounds <= RoundCap

\* some step record carries a truncation flag
TraceTruncated == \E i \in 1..Len(steps) : "truncated" \in DOMAIN steps[i]

\* C3 (as claimed): when the reply that follows the last permitted round
\* still requests tools, the loop routes to final_answer and the trace
\* carries a truncation flag.
C3_CapForcesFinalize ==
    (prev = "llm" /\ pc # "aborted" /\ toolRounds >= RoundCap
        /\ HasToolCalls(Last(messages)))
    => (pc = "final_answer" /\ TraceTruncated)

\* C4: when the first model reply carries no tool request, the turn has
\* exactly one model call, no execution of tool_execution, no tool
\* invocation, and goes from llm to final_answer (then END) with the history
\* holding the user message and that reply only.
C4_NoToolRequestOneCall ==
    (Len(messages) >= 2 /\ ~HasToolCalls(messages[2]))
    => /\ llmCalls = 1
       /\ toolRounds = 0
       /\ invoked = <<>>
       /\ Len(messages) = 2
       /\ <<prev, pc>> \in {<<"llm", "final_answer">>, <<"final_answer", "END">>}

C4_Witness ==
    /\ pc = "END"
    /\ Len(messages) = 2
    /\ ~HasToolCalls(messages[2])
    /\ final_answer = messages[2].content

\* The n tool messages answering the reply at position j follow it directly,
\* the i-th correlated to the i-th request, and no further tool message follows.
ToolReplyAnswered(j) ==
    LET tcs == messages[j].tool_calls
        n == Len(tcs)
    IN  /\ Len(messages) >= j + n
        /\ \A i \in 1..n :
              /\ messages[j + i].role = "tool"
              /\ messages[j + i].tool_call_id = tcs[i].id
              /\ messages[j + i].name = tcs[i].name
        /\ Len(messages) > j + n => messages[j + n + 1].role # "tool"

\* C5: a reply carrying n >= 1 tool requests is either the last message with
\* tool_execution due next, or it is followed by exactly n tool messages, the
\* i-th carrying the id and name of the i-th request; so at every model call
\* after the first every earlier tool-requesting reply is answered in full,
\* failed invocations included.
C5_ToolMessagesCorrelated ==
    \A j \in 1..Len(messages) :
        HasToolCalls(messages[j]) =>
            IF j = Len(messages) THEN pc = "tool_execution"
            ELSE ToolReplyAnswered(j)

\* The next model call is due after a round of two requests whose second
\* invocation failed.
C5_Witness ==
    /\ pc = "llm"
    /\ Len(messages) = 4
    /\ Len(messages[2].tool_calls) = 2
    /\ messages[3].content = "4"
    /\ messages[4].content
          = "Error: Tool 'sqrt' not found. Available tools: " \o AvailableTools

----------------------------------------------------------------------------
(* Claims about the gateway *)

SameKey(q, r) == CacheKey(req[q].request) = CacheKey(req[r].request)

\* The handler r returns in this step after awaiting the provider.
Returns(r) == req[r].st = "awaiting" /\ req'[r].st = "done"

\* The handler r starts in this step.
Arrives(r) == req[r].st = "new" /\ req'[r].st # "new"

\* C6 (as claimed): of two concurrent requests with the same key, the one
\* that completes second returns cached=true and the content of the first, and
\* the cache holds one entry for the key.  Stated for a handler r that returns
\* from the provider when a handler q of the same key has returned a response
\* while r was in flight, with no administrative call, no eviction and no
\* entry old enough to expire.
C6_SecondCompleterCached ==
    [][\A r \in ReqIds : Returns(r) =>
          \A q \in DoneIds \ req[r].after :
             (SameKey(q, r) /\ req[q].status = 200 /\ adminOps = 0
                 /\ evicted = {} /\ now < CacheTtl)
             => /\ req'[r].status = 200
                /\ req'[r].cached
                /\ req'[r].response.content = req[q].response.content
                /\ Cardinality(EntriesOf(cache', CacheKey(req[r].request))) = 1
      ]_vars

\* C7 (as claimed): absent a cache clear or an eviction, the adapter is
\* invoked at most once per key and TTL window: no two handlers await the
\* provider for the same key with start times less than a TTL apart, and no
\* handler awaits the provider for a key a response of which was stored less
\* than a TTL before it arrived.
C7_AtMostOncePerTtl ==
    (adminOps = 0 /\ evicted = {}) =>
        \A r \in ReqIds : req[r].st = "awaiting" =>
            /\ \A q \in ReqIds \ {r} :
                  (req[q].st = "awaiting" /\ SameKey(q, r) /\ q < r)
                  => req[r].start_time - req[q].start_time >= CacheTtl
            /\ \A q \in req[r].after :
                  (SameKey(q, r) /\ req[q].status = 200)
                  => req[r].start_time - req[q].stored_at >= CacheTtl

\* C8: when a handler arrives with the key of the handler that returned last
\* (no other return and no cache clear in between), that handler returned a
\* response, and the response was stored less than a TTL ago, the arriving
\* handler returns at once with status 200, cached=true and the same content,
\* model, usage and finish_reason.
C8_SecondCallCached ==
    [][\A r \in ReqIds :
          (/\ Arrives(r)
           /\ lastDone # 0
           /\ req[lastDone].status = 200
           /\ CacheKey(req'[r].request) = CacheKey(req[lastDone].request)
           /\ now - req[lastDone].stored_at < CacheTtl)
          => /\ req'[r].st = "done"
             /\ req'[r].status = 200
             /\ req'[r].cached
             /\ req'[r].response = req[lastDone].response
      ]_vars

\* The second of two handlers of one key returned the first one's response
\* from the cache, a tick or more after it was stored.
C8_Witness ==
    \E q, r \in ReqIds :
        /\ q # r
        /\ req[q].st = "done" /\ req[r].st = "done"
        /\ req[q].status = 200 /\ req[q].adapter_called
        /\ lastDone = r
        /\ SameKey(q, r)
        /\ req[r].cached
        /\ req[r].response = req[q].response
        /\ now > req[q].stored_at

\* metrics with one more call of the model, and the given increments
Counted(name, hits, errors, tokens) ==
    [metrics EXCEPT ![name] =
        [calls |-> @.calls + 1, cache_hits |-> @.cache_hits + hits,
         errors |-> @.errors + errors, tokens |-> @.tokens + tokens]]

\* C9: a handler that finds a fresh entry of its key calls no adapter, returns
\* the stored response with cached=true, and records one metric with the
\* cache-hit flag, the cache unchanged; a handler that finds none (its model
\* registered) calls the adapter, and when that returns, stores the response
\* under its key, records one metric without the flag and returns cached=false.
C9_HitAndMiss ==
    [][\A r \in ReqIds :
          /\ Arrives(r) =>
                LET request == req'[r].request
                    entry == CacheGet(cache, CacheKey(request), now)
                IN  IF entry.found
                    THEN /\ req'[r].st = "done"
                         /\ ~req'[r].adapter_called
                         /\ req'[r].status = 200
                         /\ req'[r].cached
                         /\ req'[r].response = entry.response
                         /\ metrics' = Counted(request.model, 1, 0,
                                               entry.response.total_tokens)
                         /\ cache' = cache
                    ELSE /\ ~(req'[r].st = "done" /\ req'[r].cached)
                         /\ request.model \in RegisteredModels
                               => req'[r].st = "awaiting"
          /\ (Returns(r) /\ req'[r].status = 200) =>
                LET request == req[r].request IN
                    /\ req'[r].adapter_called
                    /\ ~req'[r].cached
                    /\ CacheGet(cache', CacheKey(request), now)
                          = [found |-> TRUE, response |-> req'[r].response,
                             stored_at |-> now]
                    /\ metrics' = Counted(request.model, 0, 0,
                                          req'[r].response.total_tokens)
      ]_vars

\* A miss that called the adapter and a hit that did not, both counted.
C9_Witness ==
    \E q, r \in ReqIds :
        /\ req[q].st = "done" /\ req[r].st = "done"
        /\ req[q].adapter_called /\ ~req[q].cached /\ req[q].status = 200
        /\ req[r].cached /\ ~req[r].adapter_called
        /\ metrics[req[r].request.model].calls = 2
        /\ metrics[req[r].request.model].cache_hits = 1

\* C10: a handler that fails (unknown model: 400, adapter error: 400 or 500) leaves
\* the cache unchanged and records one metric with error=true; the cache
\* changes only by a clear or by the store of a handler whose adapter call
\* returned; and a request arriving right after a failed one of the same key,
\* no request of that key having succeeded, is not served from the cache.
C10_OnlySuccessCached ==
    [][/\ \A r \in ReqIds :
            (req[r].st # "done" /\ req'[r].st = "done" /\ req'[r].status # 200)
            => /\ cache' = cache
               /\ metrics' = Counted(req'[r].request.model, 0, 1, 0)
               /\ req'[r].status \in {400, 500}
               /\ req'[r].request.model \notin RegisteredModels
                     => req'[r].status = 400
       /\ cache' # cache =>
            \/ cache' = <<>>
            \/ \E r \in ReqIds :
                  /\ Returns(r)
                  /\ req'[r].status = 200
                  /\ cache' = CacheSet(cache, CacheKey(req[r].request),
                                       req'[r].response, now)
       /\ \A r \in ReqIds :
            (/\ Arrives(r)
             /\ lastDone # 0
             /\ req[lastDone].status # 200
             /\ CacheKey(req'[r].request) = CacheKey(req[lastDone].request)
             /\ \A q \in DoneIds :
                   CacheKey(req[q].request) = CacheKey(req'[r].request)
                   => req[q].status # 200)
            => ~(req'[r].st = "done" /\ req'[r].cached)
      ]_vars

\* After an adapter error nothing is cached, one error is counted, and the
\* next request of the same key is a miss that calls the adapter.
C10_Witness ==
    \E q, r \in ReqIds :
        /\ req[q].st = "done" /\ req[q].status = 500
        /\ req[r].st = "awaiting" /\ q \in req[r].after
        /\ SameKey(q, r)
        /\ cache = <<>>
        /\ adminOps = 0
        /\ metrics[req[q].request.model].errors = 1
        /\ metrics[req[q].request.model].calls = 1

----------------------------------------------------------------------------
(* Claims about tool failures and the reply parser *)

\* The tool_execution node runs in this step on a reply carrying requests.
ToolRound ==
    pc = "tool_execution" /\ pc' # pc /\ HasToolCalls(Last(messages))

\* content of the tool message the except branch builds
IsErrorContent(content) ==
    \E name \in DiscoveredTools \cup {"sqrt"} :
        \E out \in CallToolOutcomes(name) :
            out.tag = "exc" /\ content = "Error: " \o out.value

\* C12: a tool_execution step on a reply with n requests invokes call_tool
\* for each of the n requests in order, whatever the earlier invocations of
\* the step did, appends n tool messages and no other message, and hands
\* over to the llm node; the turn is not aborted.
C12_FailureDoesNotAbortSiblings ==
    [][ToolRound =>
          LET tcs == Last(messages).tool_calls
              n == Len(tcs)
          IN  /\ invoked' = invoked \o [i \in 1..n |-> tcs[i].name]
              /\ Len(messages') = Len(messages) + n
              /\ \A i \in 1..n :
                    /\ messages'[Len(messages) + i].role = "tool"
                    /\ messages'[Len(messages) + i].tool_call_id = tcs[i].id
              /\ pc' = "llm"
      ]_vars

\* A round of two requests: the first invocation failed, the second was made
\* and succeeded, and the model is called next.
C12_Witness ==
    /\ pc = "llm"
    /\ Len(messages) = 4
    /\ Len(messages[2].tool_calls) = 2
    /\ IsErrorContent(messages[3].content)
    /\ messages[4].role = "tool"
    /\ ~IsErrorContent(messages[4].content)
    /\ Len(invoked) = 2

\* C13: a tool_execution step posts to the provider for the requests with a
\* discovered name only, in order; a request whose name was not discovered
\* gets a tool message with the ValueError's text as error content and the
\* request's id and name, and the step hands over to the llm node.
C13_UnknownToolFailsLocally ==
    [][ToolRound =>
          LET tcs == Last(messages).tool_calls
              known == SelectSeq(tcs, LAMBDA tc : tc.name \in DiscoveredTools)
          IN  /\ posted' = posted \o [i \in 1..Len(known) |-> known[i].name]
              /\ \A i \in 1..Len(tcs) : tcs[i].name \notin DiscoveredTools =>
                    /\ Len(messages') >= Len(messages) + i
                    /\ messages'[Len(messages) + i] =
                          ToolMessage("Error: Tool '" \o tcs[i].name
                                        \o "' not found. Available tools: "
                                        \o AvailableTools,
                                      tcs[i].id, tcs[i].name)
              /\ pc' = "llm"
      ]_vars

\* The request of a name that was not discovered was answered with the error
\* message, nothing was posted, and the model is called next.
C13_Witness ==
    /\ pc = "llm"
    /\ Len(messages) = 3
    /\ Len(messages[2].tool_calls) = 1
    /\ messages[2].tool_calls[1].name \notin DiscoveredTools
    /\ messages[3].role = "tool"
    /\ messages[3].tool_call_id = messages[2].tool_calls[1].id
    /\ IsErrorContent(messages[3].content)
    /\ invoked = <<"sqrt">>
    /\ posted = <<>>

\* The llm node of agent-http runs in this step and returns its reply.
LlmReturnsHttp == variant = "http" /\ pc = "llm" /\ pc' \notin {"llm", "aborted"}

LinesOfKind(text, k) == {i \in 1..Len(LinesOf(text)) : LinesOf(text)[i].k = k}

\* The text has the marker and an ARGUMENTS line whose payload is not JSON.
BadJsonReply(text) ==
    /\ HasMarker(text)
    /\ \E i \in LinesOfKind(text, "ARGUMENTS") : ~JsonValid(LinesOf(text)[i].v)

\* C14: when the gateway's reply has the TOOL_CALL: marker and an ARGUMENTS
\* payload that is not valid JSON, the llm node returns the reply (it does not
\* raise) with no tool request attached, the graph goes to final_answer, no
\* tool is invoked, and final_answer becomes the reply's content.
C14_BadJsonFinalizes ==
    [][/\ (LlmReturnsHttp /\ BadJsonReply(Last(messages').content))
          => /\ Len(messages') = Len(messages) + 1
             /\ Last(messages').role = "assistant"
             /\ Last(messages').tool_calls = <<>>
             /\ pc' = "final_answer"
             /\ invoked' = invoked
       /\ (variant = "http" /\ pc = "final_answer" /\ pc' = "END"
             /\ BadJsonReply(Last(messages).content))
          => /\ final_answer' = Last(messages).content
             /\ messages' = messages
             /\ invoked' = invoked
      ]_vars

\* A turn whose only reply had a payload that is not JSON ended with the
\* reply's text as the answer and no tool invoked.
C14_Witness ==
    /\ variant = "http"
    /\ pc = "END"
    /\ Len(messages) = 2
    /\ BadJsonReply(messages[2].content)
    /\ final_answer = messages[2].content
    /\ invoked = <<>>

\* Partial tool-request syntax: the marker is in the text, and the tool name
\* is empty, or no line starts with the marker, or there is no ARGUMENTS line.
PartialSyntax(text) ==
    /\ HasMarker(text)
    /\ \/ \E i \in LinesOfKind(text, "TOOL_CALL") : LinesOf(text)[i].v = ""
       \/ LinesOfKind(text, "TOOL_CALL") = {}
       \/ LinesOfKind(text, "ARGUMENTS") = {}

\* C15 (as claimed): a reply of agent-http with partial tool-request syntax
\* carries no tool request, so that no tool is invoked for it and the graph
\* goes from it to final_answer.
C15_PartialSyntaxNoToolRequest ==
    \A j \in 1..Len(messages) :
        (variant = "http" /\ messages[j].role = "assistant"
            /\ PartialSyntax(messages[j].content))
        => /\ messages[j].tool_calls = <<>>
           /\ j = Len(messages)
           /\ pc \in {"final_answer", "END"}

\* The tool names the text requests, in order: one per TOOL_CALL: line.
RECURSIVE RequestedNames(_, _)
RequestedNames(lines, i) ==
    IF i > Len(lines) THEN <<>>
    ELSE (IF lines[i].k = "TOOL_CALL" THEN <<lines[i].v>> ELSE <<>>)
         \o RequestedNames(lines, i + 1)

\* The text holds several TOOL_CALL:/ARGUMENTS: pairs, all well-formed.
SeveralPairs(text) ==
    /\ Cardinality(LinesOfKind(text, "TOOL_CALL")) >= 2
    /\ Cardinality(LinesOfKind(text, "ARGUMENTS"))
          = Cardinality(LinesOfKind(text, "TOOL_CALL"))
    /\ ~PartialSyntax(text) /\ ~BadJsonReply(text)

\* C16 (as claimed): once anything follows a reply of agent-http that holds
\* several TOOL_CALL:/ARGUMENTS: pairs, what follows it first is one tool
\* message per requested tool, in order, each with the tool's name and an id
\* of its own.
C16_AllTextRequestsExecuted ==
    \A j \in 1..Len(messages) :
        (variant = "http" /\ messages[j].role = "assistant"
            /\ SeveralPairs(messages[j].content) /\ j < Len(messages))
        => LET names == RequestedNames(LinesOf(messages[j].content), 1)
               n == Len(names)
           IN  /\ Len(messages) >= j + n
               /\ \A i \in 1..n :
                     /\ messages[j + i].role = "tool"
                     /\ messages[j + i].name = names[i]
               /\ \A i, k \in 1..n :
                     i # k => messages[j + i].tool_call_id
                                # messages[j + k].tool_call_id

----------------------------------------------------------------------------
(* Claims about the callers of the loop *)

\* An error outcome: the error event, the error response.
IsErrorOutcome(e) == e.type = "error" \/ (e.type = "http" /\ e.status # 200)

\* An outcome of a turn that was served: response, complete, the 200 response.
IsSuccessOutcome(e) ==
    e.type \in {"response", "complete"} \/ (e.type = "http" /\ e.status = 200)

\* The caller of an aborted turn got one error outcome, as the last thing
\* sent, and no outcome of a served turn; no final answer is set.
AbortedTurnOutcome ==
    /\ final_answer = None
    /\ events # <<>>
    /\ IsErrorOutcome(Last(events))
    /\ \A i \in 1..Len(events) - 1 : ~IsErrorOutcome(events[i])
    /\ \A i \in 1..Len(events) : ~IsSuccessOutcome(events[i])

\* C17: when the generation request of a round fails, the run leaves the
\* graph with the state as it was, the caller is sent exactly one error
\* outcome (the error event on a streaming connection, the error response of
\* process_request) and no response, complete or 200 response; final_answer
\* stays unset, and no step follows: no node runs, nothing more is sent.
C17_GenerationFailureAbortsTurn ==
    [][/\ (pc = "llm" /\ pc' = "aborted")
          => /\ AbortedTurnOutcome'
             /\ messages' = messages /\ steps' = steps /\ invoked' = invoked
       /\ pc = "aborted" => (AbortedTurnOutcome /\ vars' = vars)
      ]_vars

\* On a streaming connection the generation request after a tool round
\* failed: the error event is the last of the events sent.
C17_Witness ==
    /\ variant = "ws"
    /\ pc = "aborted"
    /\ toolRounds = 1
    /\ Len(events) >= 5
    /\ events[1].type = "start"
    /\ Last(events).type = "error"

\* The positions of the step events, and the step event before position i.
StepPositions == {i \in 1..Len(events) : events[i].type = "step"}

StepBefore(i) == CHOOSE j \in StepPositions : j < i /\ \A k \in StepPositions : k < i => k <= j

\* The nodes of the step events are in an order the graph executes them in.
StepsInNodeOrder ==
    \A i \in StepPositions :
        IF \A k \in StepPositions : k >= i
        THEN events[i].node = "process_input"
        ELSE <<events[StepBefore(i)].node, events[i].node>> \in GraphEdges

\* C18: what a streaming connection is sent for one user message is either a
\* lone error event (empty content), or start first and once, then step
\* events numbered from 1 in node execution order (in the streamed run, the
\* nodes of the step trace), each tool_call directly followed by its
\* tool_result and both after the step event of tool_execution, then response
\* directly followed by complete as the last event; an error event is always
\* the last event sent.
C18_EventOrder ==
    variant = "ws" =>
        /\ \A i \in 1..Len(events) :
              /\ events[i].type \in {"start", "step", "tool_call", "tool_result",
                                     "response", "complete", "error"}
              /\ events[i].type = "start" <=> (i = 1 /\ user_input # "")
              /\ events[i].type = "error" => i = Len(events)
              /\ events[i].type = "complete" =>
                    (i = Len(events) /\ i > 1 /\ events[i - 1].type = "response")
              /\ events[i].type = "response" =>
                    (i = Len(events) - 1 /\ events[i + 1].type = "complete")
              /\ events[i].type = "tool_call" =>
                    /\ i < Len(events)
                    /\ events[i + 1].type = "tool_result"
                    /\ events[i + 1].tool = events[i].tool
                    /\ \E j \in StepPositions : j < i
                    /\ events[StepBefore(i)].node = "tool_execution"
              /\ events[i].type = "tool_result" =>
                    (i > 1 /\ events[i - 1].type = "tool_call")
              /\ events[i].type = "step" =>
                    events[i].step_number
                        = Cardinality({j \in StepPositions : j <= i})
        /\ StepsInNodeOrder
        /\ run = 1 =>
              [k \in 1..Len(SelectSeq(events, LAMBDA e : e.type = "step")) |->
                  SelectSeq(events, LAMBDA e : e.type = "step")[k].node]
              = [k \in 1..Len(steps) |-> steps[k].node]

\* A streamed turn with a tool round was served: start, the step and tool
\* events, response, complete.
C18_Witness ==
    /\ variant = "ws"
    /\ pc = "END"
    /\ run = 2
    /\ events[1].type = "start"
    /\ \E i \in 1..Len(events) : events[i].type = "tool_call"
    /\ events[Len(events) - 1].type = "response"
    /\ Last(events).type = "complete"

----------------------------------------------------------------------------
(* Claims about final_answer *)

\* final_answer is None before the run has reached END and set at END.
FinalAnswerPhase ==
    /\ pc # "END" => final_answer = None
    /\ pc = "END" => final_answer # None

C20_FinalizeOnPlainReply ==
    [][/\ pc = "final_answer" =>
             /\ Last(messages).role = "assistant"
             /\ Last(messages).tool_calls = <<>>
       /\ (pc = "final_answer" /\ pc' = "END") =>
             /\ final_answer' = Last(messages).content
             /\ final_answer' # MessageRepr(Last(messages))
      ]_vars

\* A turn of agent-http with a tool round ended on the content of the last
\* reply.
C20_Witness ==
    /\ variant = "http"
    /\ pc = "END"
    /\ toolRounds >= 1
    /\ Last(messages).role = "assistant"
    /\ Last(messages).tool_calls = <<>>
    /\ final_answer = Last(messages).content

----------------------------------------------------------------------------
(* Claims about the model of a turn *)

\* C21: when process_input runs on a state whose model is a model id the
\* caller supplied (a non-empty string), the model after the node is that id
\* and the node's step record names it as model_selected, whatever the text
\* says; a model is taken from the text only when the state carries none.
C21_ExplicitModelKept ==
    [][(pc = "process_input" /\ pc' # pc) =>
          /\ Truthy(model) =>
                /\ model' = model
                /\ Last(steps').model_selected = model
          /\ model' # model =>
                /\ ~Truthy(model)
                /\ model' = DetectModelFromText(user_input)
      ]_vars

\* process_input has run on a text that names gemini with the caller's
\* model gpt-4o in the state: the model is gpt-4o.
C21_Witness ==
    /\ variant = "http"
    /\ prev = "process_input"
    /\ DetectModelFromText(user_input) = "gemini-pro"
    /\ model = "gpt-4o"
    /\ Last(steps).model_selected = "gpt-4o"

\* The model id the generation requests of a turn are to carry: the caller's
\* id, else the id the text names, else the client's default model.
TurnModel(m, text) ==
    IF m \notin {None, ""} THEN m
    ELSE IF DetectModelFromText(text) # None THEN DetectModelFromText(text)
    ELSE DefaultModel

\* C22: in the gateway variant the model of the state changes in
\* process_input only, where the id a generation request would carry becomes
\* the caller's id if given, else the id inferred from the text, else the
\* default model; and every generation request made so far in the turn, in
\* every round, carried that same id.
C22_ModelFixedForTurn ==
    [][variant = "http" =>
          /\ pc # "process_input" => model' = model
          /\ (pc = "process_input" /\ pc' # pc) =>
                (IF model' \notin {None, ""} THEN model' ELSE DefaultModel)
                   = TurnModel(model, user_input)
          /\ \A i \in 1..Len(requested') :
                requested'[i] = (IF model' \notin {None, ""} THEN model'
                                 ELSE DefaultModel)
      ]_vars

\* Three generation requests of a turn whose model was inferred from the
\* text, two tool rounds between them, all for gemini-pro.
C22_Witness ==
    /\ variant = "http"
    /\ toolRounds = 2
    /\ requested = <<"gemini-pro", "gemini-pro", "gemini-pro">>
    /\ steps[1].model_selected = "gemini-pro"

----------------------------------------------------------------------------
(* Claims about the gateway's errors *)

\* The handlers that have returned for a request of the model.
DoneFor(name) == {r \in DoneIds : req[r].request.model = name}

\* C23: a generate request naming an unregistered model is answered at once
\* with status 400 (never 500, never a response), its handler calls no
\* adapter, no cache entry is ever stored under an unregistered model, and
\* the metrics of the model count one call and one error per such request
\* (no more after a metrics reset), no hit and no token.
C23_UnknownModelIsClientError ==
    /\ \A r \in ReqIds :
          (req[r].st # "new" /\ req[r].request.model \notin RegisteredModels)
          => /\ req[r].st = "done"
             /\ req[r].status = 400
             /\ ~req[r].adapter_called
             /\ ~req[r].cached
             /\ req[r].response = NoResponse
    /\ \A i \in 1..Len(cache) : cache[i].key[1] \in RegisteredModels
    /\ \A name \in MetricModels \ RegisteredModels :
          /\ metrics[name].errors = metrics[name].calls
          /\ metrics[name].errors <= Cardinality(DoneFor(name))
          /\ adminOps = 0 => metrics[name].errors = Cardinality(DoneFor(name))
          /\ metrics[name].cache_hits = 0
          /\ metrics[name].tokens = 0

\* A request of an unregistered model was answered with 400; the request
\* that arrived after it was served by the adapter and its response cached.
C23_Witness ==
    \E q, r \in ReqIds :
        /\ q < r
        /\ req[q].st = "done" /\ req[q].status = 400
        /\ req[q].request.model \notin RegisteredModels
        /\ ~req[q].adapter_called
        /\ metrics[req[q].request.model].errors = 1
        /\ req[r].st = "done" /\ req[r].status = 200 /\ req[r].adapter_called
        /\ lastDone = r
        /\ Len(cache) = 1 /\ cache[1].key = CacheKey(req[r].request)

----------------------------------------------------------------------------
(* Claims about the step trace *)

GraphNodes == {"process_input", "llm", "tool_execution", "final_answer"}

\* C24: in a graph run every execution of process_input, llm, tool_execution
\* or final_answer that returns appends exactly one record to steps, the
\* record names the node, and the records before it stay as they were; no
\* other step of the run (the entry into the graph, a generate call that
\* raises) changes steps.
C24_TraceAppendOnly ==
    [][IF pc \in GraphNodes /\ pc' # "aborted"
       THEN /\ Len(steps') = Len(steps) + 1
            /\ SubSeq(steps', 1, Len(steps)) = steps
            /\ Last(steps').node = pc
       ELSE steps' = steps
      ]_vars

\* A turn with one tool round has ended: the trace names the five nodes
\* executed, in order.
C24_Witness ==
    /\ pc = "END"
    /\ [i \in 1..Len(steps) |-> steps[i].node]
          = <<"process_input", "llm", "tool_execution", "llm", "final_answer">>

\* A turn of exactly one tool round has ended: the first reply requested one
\* tool, the tool returned, the second reply requested none.
OneToolRoundTurn ==
    /\ pc = "END"
    /\ toolRounds = 1
    /\ Len(messages) = 4
    /\ Len(messages[2].tool_calls) = 1
    /\ messages[3].role = "tool" /\ ~IsErrorContent(messages[3].content)
    /\ messages[4].role = "assistant" /\ messages[4].tool_calls = <<>>

\* The caller was returned the answer and a trace of n records.
ReturnedTrace(answer, n) ==
    /\ final_answer = answer
    /\ Len(steps) = n
    /\ Last(events) = [type |-> "http", status |-> 200, result |-> answer,
                       steps |-> n]

\* C25 (as claimed): after a turn of exactly one tool round the final answer
\* is the content of the second model reply and the returned trace has
\* length 4.
C25_OneRoundTraceOfFour ==
    OneToolRoundTurn => ReturnedTrace(messages[4].content, 4)

\* C25 (amended): after a turn of exactly one tool round the final answer is
\* the content of the second model reply and the returned trace has length
\* 5: process_input, llm, tool_execution, llm, final_answer.
C25_OneRoundTraceOfFive ==
    OneToolRoundTurn =>
        /\ ReturnedTrace(messages[4].content, 5)
        /\ [i \in 1..Len(steps) |-> steps[i].node]
              = <<"process_input", "llm", "tool_execution", "llm", "final_answer">>

\* The scenario of the specification: add(a=2,b=2) returned 4 and the model
\* then answered "4".
C25_Witness ==
    /\ OneToolRoundTurn
    /\ user_input = "2+2 please"
    /\ messages[2].tool_calls[1].name = "add"
    /\ messages[3].content = "4"
    /\ final_answer = "4"
    /\ Len(steps) = 5

\* The position of the last assistant message of the history.
LastReply ==
    CHOOSE j \in 1..Len(messages) :
        /\ messages[j].role = "assistant"
        /\ \A k \in j + 1..Len(messages) : messages[k].role # "assistant"

\* C26 (as claimed): when tool_execution has run, the record it appended has
\* one entry per tool request of the reply, in order, failed invocations
\* included, each with the request's name and arguments.
C26_RecordListsEveryInvocation ==
    (prev = "tool_execution" /\ pc = "llm") =>
        LET tcs == messages[LastReply].tool_calls
            rec == Last(steps)
        IN  /\ rec.node = "tool_execution"
            /\ Len(rec.tools) = Len(tcs)
            /\ \A i \in 1..Len(tcs) :
                  /\ rec.tools[i].name = tcs[i].name
                  /\ rec.tools[i].args = tcs[i].args

\* Traces and answers other than the ones of the state.
OtherTraces ==
    {<<>>, steps \o steps,
     [i \in 1..8 |-> [node |-> "tool_execution", tools |-> <<>>]]}

OtherAnswers == {"4", "TOOL_CALL: add"}

\* C27: when the llm node has returned, the route taken is a function of
\* the last history message: it is the same whatever the step trace, the
\* user_input, the model and the final_answer of the state are, the same for
\* a history that holds the last message only, it is "tools" exactly when
\* that message is an assistant message with tool requests, and the node
\* entered next is the one this route selects.
C27_RouteReadsLastMessageOnly ==
    (prev = "llm" /\ pc # "aborted") =>
        LET route == IF HasToolCalls(Last(messages)) THEN "tools" ELSE "final" IN
            /\ route_decision(StateOf(messages, steps, user_input, model,
                                      final_answer)) = route
            /\ \A stps \in OtherTraces :
                  route_decision(StateOf(messages, stps, user_input, model,
                                         final_answer)) = route
            /\ \A text \in UserInputs \ {user_input} :
                  route_decision(StateOf(messages, steps, text, model,
                                         final_answer)) = route
            /\ \A m \in CallerModels \ {model} :
                  route_decision(StateOf(messages, steps, user_input, m,
                                         final_answer)) = route
            /\ \A answer \in OtherAnswers :
                  route_decision(StateOf(messages, steps, user_input, model,
                                         answer)) = route
            /\ route_decision(StateOf(<<Last(messages)>>, <<>>, user_input,
                                      model, final_answer)) = route
            /\ pc = ConditionalEdge(route)

\* The route out of llm was "tools" with a trace of two records and again
\* with a trace of six.
C27_Witness ==
    /\ prev = "llm"
    /\ pc = "tool_execution"
    /\ Len(steps) = 6
    /\ steps[2].has_tool_calls /\ steps[6].has_tool_calls
    /\ steps[3].node = "tool_execution"

----------------------------------------------------------------------------
(* Claims about the tool client and the tool providers *)

\* C28 (as claimed): call_tool never raises to its caller, every invocation
\* returns: no invocation of the turn has left call_tool by an exception.
C28_InvokeNeverRaises == raised = <<>>

\* The arguments the tool cannot accept: a required argument is missing, or
\* the tool rejects the values (a zero divisor).
InvalidArguments(name, args) ==
    \/ ~(RequiredArgs(name) \subseteq DOMAIN args)
    \/ name = "divide" /\ args.b.t = "num" /\ args.b.n = 0

\* C29 (as claimed): each provider answers a tools/call request with 404
\* exactly when it does not have the tool, with 400 when it has the tool and
\* the arguments are invalid, with 200 or 500 otherwise, and a 200 answer
\* carries one text content item.
C29_ProviderStatuses ==
    \A i \in 1..Len(served) :
        LET c == served[i]
            known == c.name \in ServerTools(c.server)
        IN  /\ c.answer.status \in {200, 400, 404, 500}
            /\ c.answer.status = 404 <=> ~known
            /\ (known /\ InvalidArguments(c.name, c.arguments))
                  => c.answer.status = 400
            /\ (known /\ ~InvalidArguments(c.name, c.arguments))
                  => c.answer.status \in {200, 500}
            /\ c.answer.status = 200 =>
                  /\ Len(c.answer.content) = 1
                  /\ c.answer.content[1].type = "text"

----------------------------------------------------------------------------
(* Claims about closed connections *)

----------------------------------------------------------------------------
(* Claims about the gateway's metrics *)

CounterNames == {"calls", "cache_hits", "errors", "tokens"}

\* Some counter of some model is lower after the step than before it.
SomeCounterDecreases ==
    \E name \in MetricModels, f \in CounterNames :
        metrics'[name][f] < metrics[name][f]

\* C31: a step in which a counter decreases is an administrative call that
\* sets every counter of every model to zero and leaves the cache and the
\* requests as they are (the reset): no step in which a handler starts or
\* returns (hit, miss or error) and no step in which the cache changes
\* decreases a counter; and an administrative call that changes the metrics
\* leaves the cache contents unchanged.
C31_OnlyResetLowersCounters ==
    [][metrics' # metrics =>
          /\ IF SomeCounterDecreases
             THEN /\ adminOps' = adminOps + 1
                  /\ metrics' = [name \in MetricModels |-> ZeroCounters]
                  /\ cache' = cache
                  /\ req' = req
             ELSE TRUE
          /\ adminOps' # adminOps => cache' = cache
      ]_vars

\* The metrics were reset after a request had been served by the adapter
\* and recorded: every counter is zero again and the response is still in
\* the cache.
C31_Witness ==
    /\ adminOps = 1
    /\ \A name \in MetricModels : metrics[name] = ZeroCounters
    /\ \E r \in ReqIds :
          /\ req[r].st = "done" /\ req[r].status = 200 /\ req[r].adapter_called
          /\ Len(cache) = 1 /\ cache[1].key = CacheKey(req[r].request)
          /\ cache[1].response = req[r].response


\* The handler r returns in this step, from the cache, from get_llm or from
\* the provider.
Finishes(r) == req[r].st # "done" /\ req'[r].st = "done"

\* The handlers of rq that returned for the model; the hits and the
\* successful misses among them.
HandledFor(rq, name) ==
    {r \in ReqIds : rq[r].st = "done" /\ rq[r].request.model = name}
HitsOf(rq, name) ==
    {r \in HandledFor(rq, name) : rq[r].status = 200 /\ rq[r].cached}
MissesOf(rq, name) ==
    {r \in HandledFor(rq, name) : rq[r].status = 200 /\ ~rq[r].cached}

----------------------------------------------------------------------------
(* Claims about the tool registry *)

\* A call of op returned or raised in this step.
Calls(op) == lastCall' # lastCall /\ lastCall'.op = op

\* The definitions of a list that carry the name.
DefinitionsOf(tools, name) == {i \in 1..Len(tools) : tools[i].name = name}

\* The registry parts of C32: no two items of the registry have the same
\* name; a step that changes the registry is a register_tool that did not
\* raise and appended one item under a name that was not registered;
\* register_tool with a registered name raises and get_tool with an
\* unregistered name raises, both leaving the registry as it is; list-tools
\* and call-tool leave it as it is.
RegistryChangedOnlyByRegisterTool ==
    /\ Cardinality(Keys(TOOL_REGISTRY')) = Len(TOOL_REGISTRY')
    /\ TOOL_REGISTRY' # TOOL_REGISTRY =>
          /\ Calls("register_tool") /\ ~lastCall'.raised
          /\ lastCall'.name \notin Keys(TOOL_REGISTRY)
          /\ Len(TOOL_REGISTRY') = Len(TOOL_REGISTRY) + 1
          /\ SubSeq(TOOL_REGISTRY', 1, Len(TOOL_REGISTRY)) = TOOL_REGISTRY
          /\ Last(TOOL_REGISTRY')[1] = lastCall'.name
    /\ (Calls("register_tool") /\ lastCall'.name \in Keys(TOOL_REGISTRY)) =>
          lastCall'.raised /\ TOOL_REGISTRY' = TOOL_REGISTRY
    /\ (Calls("get_tool") /\ lastCall'.name \notin Keys(TOOL_REGISTRY)) =>
          lastCall'.raised /\ TOOL_REGISTRY' = TOOL_REGISTRY
    /\ (Calls("list_tools") \/ Calls("get_tool") \/ served' # served) =>
          TOOL_REGISTRY' = TOOL_REGISTRY

\* C32 (as claimed): tool names are unique keys of the registry, the
\* registry is changed only by a successful register_tool (a registered name
\* is refused, get_tool of an unregistered name fails, list-tools and
\* call-tool change nothing), and list-tools returns exactly one definition
\* per registered name: as many definitions as names, one of each name.
C32_RegistryKeysUnique ==
    [][/\ RegistryChangedOnlyByRegisterTool
       /\ Calls("list_tools") =>
             /\ Len(lastCall'.result) = Cardinality(Keys(TOOL_REGISTRY))
             /\ \A name \in Keys(TOOL_REGISTRY) :
                   Cardinality(DefinitionsOf(lastCall'.result, name)) = 1
      ]_vars


----------------------------------------------------------------------------
(* Claims about the streaming handler *)

\* A node's chunk is streamed in this step: one more step event.
StepStreamed == StepCount(events') = StepCount(events) + 1

\* The response and complete events are sent in this step.
OutcomeSent ==
    /\ Len(events') = Len(events) + 2
    /\ events'[Len(events) + 1].type = "response"
    /\ events'[Len(events) + 2].type = "complete"

\* C33 (as claimed): in the handling of one message of a streaming client the
\* loop is executed once, by the execution whose steps are streamed: a step
\* that issues a generation request is a streamed step (or the request
\* raises and the turn is aborted), a step that invokes tools is a streamed
\* step, and the complete event reports as many steps as step events were
\* streamed.
C33_LoopExecutedOnce ==
    [][variant = "ws" =>
          /\ Len(requested') > Len(requested) =>
                (StepStreamed \/ pc' = "aborted")
          /\ Len(invoked') > Len(invoked) => StepStreamed
          /\ OutcomeSent =>
                events'[Len(events) + 2].steps = StepCount(events')
      ]_vars

\* The tool_call events of what was sent, in order.
ToolCallEvents == SelectSeq(events, LAMBDA e : e.type = "tool_call")

\* C34 (as claimed): in the streamed execution of a turn the tool_call events
\* are those of the invocations performed, failed ones included, one each
\* and in invocation order, and every tool_call event is directly followed
\* by the tool_result event of the same tool.
C34_OneEventPairPerInvocation ==
    (variant = "ws" /\ run = 1) =>
        /\ [k \in 1..Len(ToolCallEvents) |-> ToolCallEvents[k].tool] = invoked
        /\ \A i \in 1..Len(events) :
              events[i].type = "tool_call" =>
                  /\ i < Len(events)
                  /\ events[i + 1].type = "tool_result"
                  /\ events[i + 1].tool = events[i].tool

----------------------------------------------------------------------------
(* Claims about the generation requests and the history *)

\* The assistant messages of a history.
AssistantMessages(msgs) == SelectSeq(msgs, LAMBDA e : e.role = "assistant")

\* C36: in the loop that calls the gateway, the messages of every generation
\* request are one system message, the tool enumeration, followed by one
\* message per message of the history at the call, in order and with its
\* content (a user or assistant message under its role, a tool message as a
\* user message); the history never holds a system message; the call that
\* returns appends exactly one assistant message to the history and the call
\* that raises leaves it as it is; no other step adds an assistant message.
C36_RequestIsSystemPlusHistory ==
    [][variant # "agent" =>
          /\ \A i \in 1..Len(messages') : messages'[i].role # "system"
          /\ IF llmCalls' > llmCalls
             THEN /\ Len(mcp_messages') = Len(messages) + 1
                  /\ mcp_messages'[1] = [role |-> "system", content |-> SystemPrompt]
                  /\ \A i \in 1..Len(messages) :
                        /\ mcp_messages'[i + 1].content = messages[i].content
                        /\ mcp_messages'[i + 1].role =
                              (IF messages[i].role = "assistant" THEN "assistant"
                               ELSE "user")
                  /\ IF pc' = "aborted" THEN messages' = messages
                     ELSE /\ Len(messages') = Len(messages) + 1
                          /\ SubSeq(messages', 1, Len(messages)) = messages
                          /\ Last(messages').role = "assistant"
             ELSE /\ mcp_messages' = mcp_messages
                  /\ AssistantMessages(messages') = AssistantMessages(messages)
      ]_vars

\* The second generation request of a turn was sent with the system
\* message, the user message, the first reply and the tool message "4" (as a
\* user message), and the second reply was appended to the history.
C36_Witness ==
    /\ variant = "http"
    /\ llmCalls = 2
    /\ prev = "llm" /\ pc # "aborted"
    /\ Len(messages) = 4
    /\ messages[3].role = "tool" /\ messages[3].content = "4"
    /\ messages[4].role = "assistant"
    /\ Len(mcp_messages) = 4
    /\ mcp_messages[1].role = "system"
    /\ mcp_messages[2] = [role |-> "user", content |-> user_input]
    /\ mcp_messages[3].role = "assistant"
    /\ mcp_messages[4] = [role |-> "user", content |-> "4"]

\* The shape of a history msgs when the node nxt is due next.
HistoryShape(msgs, nxt) ==
    /\ \A j \in 1..Len(msgs) :
          /\ msgs[j].role \in {"user", "assistant", "tool"}
          /\ msgs[j].role = "user" <=> j = 1
          /\ HasToolCalls(msgs[j]) =>
                IF j = Len(msgs) THEN nxt = "tool_execution"
                ELSE LET tcs == msgs[j].tool_calls
                         n == Len(tcs)
                     IN  /\ Len(msgs) >= j + n
                         /\ \A i \in 1..n :
                               /\ msgs[j + i].role = "tool"
                               /\ msgs[j + i].tool_call_id = tcs[i].id
                         /\ Len(msgs) > j + n => msgs[j + n + 1].role = "assistant"
          /\ (msgs[j].role = "assistant" /\ ~HasToolCalls(msgs[j])) =>
                j = Len(msgs)
    /\ nxt = "llm" => (msgs # <<>> /\ Last(msgs).role \in {"user", "tool"})

\* C37: after every step of a graph run the history is the history before
\* the step with messages appended (nothing reordered, rewritten or
\* removed), and it has this shape: the first message, and no other, is the
\* user message; a reply carrying n tool requests is directly followed by
\* the n tool messages with the ids of its requests, in order, and then by
\* the next reply, unless it is the last message and tool_execution is due
\* next; a reply without tool requests is the last message; when a model
\* call is due the last message is the user message or a tool message.
\* (A step that leaves the history alone keeps its shape, so only what
\* depends on the node due next is stated for it.)
C37_HistoryShape ==
    [][IF messages' = messages
       THEN /\ pc' = "llm" =>
                  (messages # <<>> /\ Last(messages).role \in {"user", "tool"})
            /\ (messages # <<>> /\ HasToolCalls(Last(messages))) =>
                  pc' = "tool_execution"
       ELSE /\ Len(messages') > Len(messages)
            /\ SubSeq(messages', 1, Len(messages)) = messages
            /\ HistoryShape(messages', pc')
      ]_vars

\* A third model call is due after two tool rounds: the user message, a
\* reply with a request, its tool message, a second reply with a request,
\* its tool message.
C37_Witness ==
    /\ pc = "llm"
    /\ llmCalls = 2
    /\ Len(messages) = 5
    /\ messages[1].role = "user"
    /\ HasToolCalls(messages[2]) /\ messages[3].role = "tool"
    /\ HasToolCalls(messages[4]) /\ messages[5].role = "tool"
    /\ messages[5].tool_call_id = messages[4].tool_calls[1].id

----------------------------------------------------------------------------
(* Claims about the turns of a connection *)

\* The events connection c was sent by its turn t, in order.
EventsOf(c, t) == SelectSeq(endpoint[c].sent, LAMBDA ev : ev[1] = t)

\* The handler of turn t of connection c has returned: its last event is
\* the one it sends last.
Ended(c, t) ==
    /\ EventsOf(c, t) # <<>>
    /\ Last(EventsOf(c, t))[2] \in {"complete", "error", "pong"}

\* C38: turns on one connection are strictly sequential: when turn t + 1
\* has been read, the handler of turn t has returned (after its complete or
\* error event, or its pong); while a handler runs, the frames the client
\* sends wait unread; the events of a connection are ordered by turn, so
\* the events of two of its turns never interleave; a turn that sent
\* complete or response sent start first.
C38_TurnsSequential ==
    \A c \in DOMAIN endpoint :
        LET e == endpoint[c]
        IN  /\ \A t \in 1..e.turn :
                  (t < e.turn \/ e.at \in {"receive", "closed"}) => Ended(c, t)
            /\ e.at \in {"astream", "complete"} => ~Ended(c, e.turn)
            /\ \A i \in 1..Len(e.sent), j \in 1..Len(e.sent) :
                  i < j => e.sent[i][1] <= e.sent[j][1]
            /\ \A t \in 1..e.turn :
                  LET evs == EventsOf(c, t)
                  IN  \A i \in 1..Len(evs) :
                         /\ evs[i][2] = "start" => i = 1
                         /\ evs[i][2] \in {"step", "response"} =>
                               (i > 1 /\ evs[1][2] = "start")
                         /\ evs[i][2] = "complete" =>
                               (i = Len(evs) /\ evs[i - 1][2] = "response")
                         /\ evs[i][2] \in {"error", "pong"} => i = Len(evs)

\* Connection c1 is in its second turn after its first one completed, with
\* connection c2 in the middle of a turn of its own.
C38_Witness ==
    /\ DOMAIN endpoint = {"c1", "c2"}
    /\ endpoint["c1"].sent =
          << <<0, "connected">>, <<1, "start">>, <<1, "step">>,
             <<1, "response">>, <<1, "complete">>, <<2, "start">> >>
    /\ endpoint["c1"].at = "astream"
    /\ endpoint["c2"].at = "complete"
    /\ endpoint["c2"].turn = 1

----------------------------------------------------------------------------
(* Claims about the model adapters *)

\* The contents of the turns a provider was sent, in order.
SentContents(d) ==
    IF d.adapter = "gemini"
    THEN [i \in 1..Len(d.request.history) |-> d.request.history[i].parts[1]]
            \o <<d.request.message>>
    ELSE IF d.adapter = "bedrock"
    THEN [i \in 1..Len(d.request.messages) |-> d.request.messages[i].content[1].text]
    ELSE LET turns == Turns(d.request.messages)
         IN  [i \in 1..Len(turns) |-> turns[i].content]

\* The system texts a provider was sent, in a system field or inline.
SentSystem(d) ==
    IF d.adapter = "gemini" THEN {}
    ELSE IF d.adapter = "bedrock"
    THEN {d.request.system[i].text : i \in 1..Len(d.request.system)}
    ELSE {d.request.messages[i].content :
             i \in {j \in 1..Len(d.request.messages) :
                       d.request.messages[j].role = "system"}}

\* C39: for a conversation of user and assistant messages with at most a
\* leading system message, the provider is sent the contents of the user
\* and assistant messages in their order, and the content of the leading
\* system message.
C39_WholeConversationDelivered ==
    (/\ delivered # <<>>
     /\ \A i \in 2..Len(delivered.messages) :
           delivered.messages[i].role # "system")
    => /\ LET turns == Turns(delivered.messages)
          IN  SentContents(delivered) = [i \in 1..Len(turns) |-> turns[i].content]
       /\ delivered.messages[1].role = "system" =>
             delivered.messages[1].content \in SentSystem(delivered)

====
